---- MODULE Spec2Model ----
(***************************************************************************)
(* Token acquisition and exit-management engine of the Solana sniper bot:  *)
(* the discovery loop of monitor.py, buy_token / check_and_sell_tokens /   *)
(* sell_token of trader.py and the wallet configuration of                  *)
(* wallet_manager.py, as run by main.py (run_bot + run_monitor).            *)
(*                                                                         *)
(* Units.  Floats of the source are kept as exact fixed-point integers:     *)
(*   prices                 : price units (one unit = one quantum of USDT)  *)
(*   target_price_usdt      : 1/100 of a price unit (price * (100 + pct))   *)
(*   wallet_balance_sol     : micro-SOL (get_wallet_balance_solana rounds   *)
(*                            to 6 decimals)                                *)
(*   purchase_amount_sol,                                                   *)
(*   TOTAL_REQUIRED_SOL     : 1e-8 SOL  (micro-SOL * percent)               *)
(*   purchase_amount_usdt   : 1e-8 USDT (micro-SOL * rate * percent)        *)
(*   percentages            : whole percents                                *)
(***************************************************************************)
EXTENDS Integers, Sequences, FiniteSets, TLC

\* ------------------------------------------------------------------ bounds
MaxListing == 2          \* candidates of one token-profile listing
MaxSig == 1              \* distinct transaction signatures told apart

Tokens == {"T1", "T2"}
Users == {1}
WalletNames == {"A", "B"}
\* every (user, wallet) pair, in the order the fan-outs visit them
AllWallets == <<<<1, "A">>, <<1, "B">>>>
Sigs == 1..MaxSig

\* values the external providers can answer with
Prices == {0, 2, 4}                  \* token spot price; 0 = not available
SolPrices == {0, 150}                \* SOL/USDT rate; 0 = not available
Balances == {0, 2000, 100000}        \* native balance in micro-SOL
TokenBalances == {0, 5}              \* on-chain token balance (smallest units)
MaxTokenAccounts == 2                \* token accounts of one mint a wallet owns
TradeInputs == {0, 100, 150}         \* what a user may type as trade percent
ProfitInputs == {-50, 0, 100}        \* what a user may type as profit percent
PollSeconds == {15}                  \* wall-clock cost of one confirmation poll

\* ------------------------------------------------------- program constants
DEFAULT_TRADE_PERCENTAGE == 1
DEFAULT_PROFIT_PERCENTAGE == 100
MAX_AGE_MINUTES == 50
MONITOR_HIGH_SCORE == 6
FILTERS_HIGH_SCORE == 8
ATA_CREATION_COST_SOL == 203928
MINIMUM_GAS_FOR_FUTURE_TX == 1000
CONFIRM_TIMEOUT == 30
CHECK_INTERVAL == 30
WAIT_TIME == 60

\* ------------------------------------------------------------------- state
VARIABLES
    config,            \* config/wallets/<user>.json : user -> wallet -> settings
    store,             \* data/purchased_tokens/<user>_<wallet>.json, in key order
    processed_tokens,  \* monitor.processed_tokens (process lifetime)
    pc,                \* position of the monitor task
    new_tokens,        \* accepted addresses still to be bought this cycle
    wallets_left,      \* (user, wallet) pairs still to visit in the fan-out
    disc,              \* frame of get_new_tokens_from_dexscreener
    bt,                \* frame of buy_token
    cs,                \* frame of check_and_sell_tokens
    st,                \* frame of sell_token
    accepted_count,    \* history: acceptances per address in this process
    buy_calls          \* history: calls of buy_token per (user, wallet, address)

vars == <<config, store, processed_tokens, pc, new_tokens, wallets_left,
          disc, bt, cs, st, accepted_count, buy_calls>>

\* ------------------------------------------------- python dict, key-ordered
DictKeys(d) == {d[i].token : i \in 1..Len(d)}

DictGet(d, t) == d[CHOOSE i \in 1..Len(d) : d[i].token = t]

DictPut(d, t, rec) ==
    IF t \in DictKeys(d)
    THEN [i \in 1..Len(d) |-> IF d[i].token = t THEN rec ELSE d[i]]
    ELSE Append(d, rec)

\* a deletion that empties the dict
DictDel_clearing(d, t) == <<>>

DictDel(d, t) == SelectSeq(d, LAMBDA r : r.token # t)

\* what open(file, 'w') + json.dump leave behind when the process dies
\* between the truncation and the last byte: a text json.load cannot parse
PartialFile == <<[token |-> "<partial>"]>>

\* buy_token, lines 409-415: json.load of the store, {} when the file is
\* missing or raises JSONDecodeError
load_or_new(file) == IF file = PartialFile THEN <<>> ELSE file

\* check_and_sell_tokens, lines 462-468 and 500-504: nothing to do when the
\* file is missing, holds {} or cannot be parsed (the handler ends the call)
nothing_to_check(file) == file = <<>> \/ file = PartialFile

\* ------------------------------------------------------ wallet_manager.py
load_user_config(user_id) == config[user_id]

\* get_user_wallets: user_config.get("wallets", {})
get_user_wallets(user_id) == load_user_config(user_id)

\* a dict without keys
EmptyDict == [k \in {} |-> 0]

\* get_wallet_config: the wallet's settings, {} for an unknown wallet
get_wallet_config(user_id, wallet_name) ==
    IF wallet_name \in DOMAIN get_user_wallets(user_id)
    THEN get_user_wallets(user_id)[wallet_name]
    ELSE EmptyDict

\* a dict.update that forgets the keys it was not given
dict_update_replacing(wallet, updates) == updates

\* dict.update: keys of updates take the new value, the rest is kept
dict_update(wallet, updates) ==
    [k \in DOMAIN wallet \cup DOMAIN updates |->
        IF k \in DOMAIN updates THEN updates[k] ELSE wallet[k]]

\* update_wallet_config: load, create the wallet entry if missing, update, save
update_wallet_config(user_id, wallet_name, updates) ==
    LET user_config == load_user_config(user_id)
    IN  config' = [config EXCEPT ![user_id] =
                      [n \in DOMAIN user_config \cup {wallet_name} |->
                          IF n = wallet_name
                          THEN dict_update(get_wallet_config(user_id, n), updates)
                          ELSE user_config[n]]]

\* botTG.get_new_trade_percent: rejects values outside (0, 100]
get_new_trade_percent(user_id, wallet_name, new_percent) ==
    /\ ~(new_percent <= 0 \/ new_percent > 100)
    /\ update_wallet_config(user_id, wallet_name,
                            [k \in {"trade_percentage"} |-> new_percent])
    /\ UNCHANGED <<store, processed_tokens, pc, new_tokens, wallets_left,
                   disc, bt, cs, st, accepted_count, buy_calls>>

\* botTG.get_new_profit_percent: rejects negative values
get_new_profit_percent(user_id, wallet_name, new_percent) ==
    /\ ~(new_percent < 0)
    /\ update_wallet_config(user_id, wallet_name,
                            [k \in {"profit_percentage"} |-> new_percent])
    /\ UNCHANGED <<store, processed_tokens, pc, new_tokens, wallets_left,
                   disc, bt, cs, st, accepted_count, buy_calls>>

\* a fan-out that goes twice over the wallets
registered_wallets_twice ==
    SelectSeq(AllWallets \o AllWallets,
              LAMBDA w : w[2] \in DOMAIN load_user_config(w[1]))

\* glob('config/wallets/*.json') x get_user_wallets(user_id).keys()
registered_wallets ==
    SelectSeq(AllWallets, LAMBDA w : w[2] \in DOMAIN load_user_config(w[1]))

\* WalletManager.add_wallet, as it left every registered wallet
add_wallet(user_id, name) ==
    [address |-> <<"addr", user_id, name>>,
     private_key |-> <<"key", user_id, name>>,
     trade_percentage |-> DEFAULT_TRADE_PERCENTAGE,
     profit_percentage |-> DEFAULT_PROFIT_PERCENTAGE]

\* ------------------------------------------------------------ idle frames
\* the history of the calls of buy_token: kept for the (user, wallet,
\* address) triples in its domain, so not at all when it is Untracked; no
\* call made yet in NoCalls; the count of a call stops at MaxBuyCalls
MaxBuyCalls == 2
Untracked == <<>>
NoCalls == [c \in (Users \X WalletNames) \X Tokens |-> 0]
counted(calls, c) ==
    IF c \in DOMAIN calls
    THEN [calls EXCEPT ![c] = IF @ < MaxBuyCalls THEN @ + 1 ELSE @]
    ELSE calls

NoDisc == [scanned |-> 0, token |-> "", has_pairs |-> "", disposition |-> ""]

NoBuy == [user_id |-> 0, wallet_name |-> "", token_address |-> "",
          trade_percentage |-> 0, profit_percentage |-> 0,
          wallet_balance_sol |-> 0, current_price_usdt |-> 0,
          purchase_amount_usdt |-> 0, tx_sig |-> 0, elapsed |-> 0,
          spot_at_confirmation |-> 0, purchase_amount_sol |-> 0, amount |-> 0,
          has_pairs |-> "", swap_requested |-> FALSE, build_requests |-> <<>>,
          pair_data |-> <<>>, scam_info |-> <<>>,
          token_name |-> <<>>, token_symbol |-> <<>>,
          price_reply |-> <<>>,
          outcome |-> "", result |-> "", entry_store |-> <<>>]

NoCheck == [user_id |-> 0, wallet_name |-> "", purchased_tokens |-> <<>>,
            updated_tokens |-> <<>>, idx |-> 0, sold_any |-> FALSE,
            fetched |-> {}, outcomes |-> {}]

NoSell == [token_address |-> "", tx_sig |-> 0, elapsed |-> 0, amount |-> 0,
           swap_requested |-> FALSE, outcome |-> ""]

\* the state main.py starts from, with the wallets `names` registered
InitWith(names) ==
    /\ config = [u \in Users |-> [n \in names |-> add_wallet(u, n)]]
    /\ store = [w \in Users \X WalletNames |-> <<>>]
    /\ processed_tokens = {}
    /\ pc = "cycle"
    /\ new_tokens = <<>>
    /\ wallets_left = <<>>
    /\ disc = NoDisc
    /\ bt = NoBuy
    /\ cs = NoCheck
    /\ st = NoSell
    /\ accepted_count = [t \in Tokens |-> 0]
    /\ buy_calls = Untracked


\* ---------------------------------------------------------------- monitor.py
\* what the pair endpoint can answer for one candidate
\* the clock when a candidate is evaluated, and the pairCreatedAt values a
\* pair can carry, in minutes: none, older than MAX_AGE_MINUTES, exactly
\* MAX_AGE_MINUTES old, in the future
NOW == 100
CreatedAts ==
    {0, NOW - MAX_AGE_MINUTES - 1, NOW - MAX_AGE_MINUTES, NOW + 50}

\* an age taken from the timestamp whatever it is
age_minutes_unchecked(created_at, current_time) == current_time - created_at

\* monitor.check_token_scam_risk, lines 159-171: the age of the pair, 0
\* (with a warning) for a timestamp that is missing or not in the past
age_minutes_of(created_at, current_time) ==
    IF created_at # 0 /\ 0 < created_at /\ created_at < current_time
    THEN current_time - created_at
    ELSE 0

MonitorResponses ==
    [kind : {"exception", "non200", "empty", "no_allowed_dex"},
     risk_score : {0}, created_at : {0}]
    \cup [kind : {"ok"}, risk_score : {0, MONITOR_HIGH_SCORE},
          created_at : CreatedAts]

\* monitor.check_token_scam_risk: the fields the discovery loop reads
monitor_check_token_scam_risk(resp) ==
    CASE resp.kind = "exception" ->
             [risk_level |-> "UNKNOWN", has_pairs |-> FALSE, age_minutes |-> 0]
      [] resp.kind \in {"non200", "empty"} ->
             [risk_level |-> "HIGH", has_pairs |-> FALSE, age_minutes |-> 0]
      [] resp.kind = "no_allowed_dex" ->
             [risk_level |-> "HIGH", has_pairs |-> TRUE, age_minutes |-> 0]
      [] OTHER ->
             [risk_level |-> IF resp.risk_score >= MONITOR_HIGH_SCORE THEN "HIGH"
                             ELSE IF resp.risk_score >= 3 THEN "MEDIUM" ELSE "LOW",
              has_pairs |-> TRUE,
              age_minutes |-> age_minutes_of(resp.created_at, NOW)]

\* a candidate loop without memory of what it returned
never_processed(token_address) == FALSE

\* the seen-set test of the candidate loop
already_processed(token_address) == token_address \in processed_tokens

\* the filter chain of the candidate loop, for a candidate that was evaluated
candidate_disposition(scam_info) ==
    IF ~scam_info.has_pairs THEN "no_pairs"
    ELSE IF scam_info.risk_level # "HIGH" /\ scam_info.age_minutes <= MAX_AGE_MINUTES
         THEN "accepted"
         ELSE "rejected"

\* requests.get(DEXSCREENER_TOKEN_PROFILES_URL): anything but a 200 ends the
\* call with no candidates
get_new_tokens_request(ok) ==
    /\ pc = "cycle"
    /\ new_tokens' = <<>>
    /\ IF ok
       THEN /\ pc' = "discover"
            /\ disc' = [NoDisc EXCEPT !.disposition = "listing"]
            /\ wallets_left' = <<>>
       ELSE /\ pc' = "sell_fanout"
            /\ disc' = NoDisc
            /\ wallets_left' = registered_wallets
    /\ UNCHANGED <<config, store, processed_tokens, bt, cs, st,
                   accepted_count, buy_calls>>

\* one iteration of `for token in solana_tokens`
discover_candidate(token_address, resp) ==
    /\ pc = "discover"
    /\ disc.scanned < MaxListing
    /\ LET scam_info == monitor_check_token_scam_risk(resp)
           disposition ==
               IF already_processed(token_address) THEN "seen"
               ELSE candidate_disposition(scam_info)
       IN  /\ disc' = [scanned |-> disc.scanned + 1, token |-> token_address,
                       has_pairs |-> IF disposition = "seen" THEN ""
                                     ELSE IF scam_info.has_pairs THEN "yes" ELSE "no",
                       disposition |-> disposition]
           /\ IF disposition = "accepted"
              THEN /\ new_tokens' = Append(new_tokens, token_address)
                   /\ processed_tokens' = processed_tokens \cup {token_address}
                   /\ accepted_count' =
                          [accepted_count EXCEPT ![token_address] = @ + 1]
              ELSE UNCHANGED <<new_tokens, processed_tokens, accepted_count>>
    /\ UNCHANGED <<config, store, pc, wallets_left, bt, cs, st, buy_calls>>

\* end of the listing: back in monitor_new_tokens, `if new_tokens:`
get_new_tokens_return ==
    /\ pc = "discover"
    /\ disc' = NoDisc
    /\ pc' = IF new_tokens # <<>> THEN "buy_fanout" ELSE "sell_fanout"
    /\ wallets_left' = registered_wallets
    /\ UNCHANGED <<config, store, processed_tokens, new_tokens, bt, cs, st,
                   accepted_count, buy_calls>>

\* ----------------------------------------------------------------- filters.py
FilterResponses ==
    [kind : {"exception", "non200", "bad_json", "empty"}, risk_score : {0}]
    \cup [kind : {"ok"}, risk_score : {0, 4, FILTERS_HIGH_SCORE}]

\* thresholds of the discovery loop's own check (monitor.py 201-209)
filters_risk_level_as_monitor(risk_score) ==
    IF risk_score >= MONITOR_HIGH_SCORE THEN "HIGH"
    ELSE IF risk_score >= 3 THEN "MEDIUM" ELSE "LOW"

\* filters.check_token_scam_risk, lines 215-223: the level of a score
filters_risk_level(risk_score) ==
    IF risk_score >= FILTERS_HIGH_SCORE THEN "HIGH"
    ELSE IF risk_score >= 4 THEN "MEDIUM" ELSE "LOW"

\* what filters.check_token_scam_risk reads of the first pair of the
\* DexScreener answer and of the RugCheck report: values on both sides of
\* each threshold; without a report its fields are absent
PairData ==
    [liquidity_usd : {500, 10000}, volume_24h : {50, 50000},
     has_name : BOOLEAN, has_symbol : {TRUE},
     h1_buys : {0, 11, 12}, h1_sells : {0, 10},
     socials : {0, 1}, price_change_h1 : {300, 301},
     has_report : {FALSE}, top_holder_pct : {0}, score_normalised : {100},
     danger : {0}, warn : {0}]
    \cup [liquidity_usd : {500, 10000}, volume_24h : {50, 50000},
          has_name : {TRUE}, has_symbol : BOOLEAN,
          h1_buys : {12}, h1_sells : {10},
          socials : {0, 1}, price_change_h1 : {300},
          has_report : {TRUE}, top_holder_pct : {20, 21},
          score_normalised : {89, 90, 99, 100},
          danger : {0, 1, 2}, warn : {0, 1, 2}]

\* filters.check_token_scam_risk, lines 144-213: the points of each finding
filters_risk_score(d) ==
    (IF d.liquidity_usd < 10000 THEN 3 ELSE 0)
    + (IF d.volume_24h < 50000 THEN 2 ELSE 0)
    + (IF ~d.has_name \/ ~d.has_symbol THEN 4 ELSE 0)
    + (IF d.h1_sells > 0 /\ d.h1_buys > 0 /\ d.h1_buys * 10 < d.h1_sells * 12
       THEN 2 ELSE 0)
    + (IF d.socials = 0 THEN 1 ELSE 0)
    + (IF d.price_change_h1 > 300 THEN 2 ELSE 0)
    + (IF d.has_report
       THEN (IF d.top_holder_pct > 20 THEN 5 ELSE 0)
            + (IF d.score_normalised < 90 THEN 3 ELSE 0)
            + 3 * d.danger + d.warn
       ELSE 0)

\* the dict returned for an answer with a pair (lines 225-242)
filters_scam_info(d) ==
    [risk_score |-> filters_risk_score(d),
     risk_level |-> filters_risk_level(filters_risk_score(d)),
     has_pairs |-> TRUE]

\* filters.check_token_scam_risk: the fields is_potential_scam reads
filters_check_token_scam_risk(resp) ==
    CASE resp.kind = "exception" -> [risk_level |-> "UNKNOWN", has_pairs |-> FALSE]
      [] resp.kind \in {"non200", "bad_json", "empty"} ->
             [risk_level |-> "HIGH", has_pairs |-> FALSE]
      [] OTHER ->
             [risk_level |-> filters_risk_level(resp.risk_score),
              has_pairs |-> TRUE]

\* strings are sequences of characters
UpperCase == <<"A", "B", "C", "D", "E", "F", "G", "H", "I", "J", "K", "L", "M",
               "N", "O", "P", "Q", "R", "S", "T", "U", "V", "W", "X", "Y", "Z">>
LowerCase == <<"a", "b", "c", "d", "e", "f", "g", "h", "i", "j", "k", "l", "m",
               "n", "o", "p", "q", "r", "s", "t", "u", "v", "w", "x", "y", "z">>

\* str.lower()
str_lower(str) ==
    [i \in 1..Len(str) |->
        IF \E k \in 1..26 : UpperCase[k] = str[i]
        THEN LowerCase[CHOOSE k \in 1..26 : UpperCase[k] = str[i]]
        ELSE str[i]]

\* `word in str`
str_contains(str, word) ==
    \E i \in 0..(Len(str) - Len(word)) : SubSeq(str, i + 1, i + Len(word)) = word

ScamWords ==
    {<<"t", "e", "s", "t">>, <<"f", "a", "k", "e">>, <<"s", "c", "a", "m">>,
     <<"h", "o", "n", "e", "y", "p", "o", "t">>}

\* indicators that compare the name and the symbol as they are written
scam_indicators_case_sensitive(token_name, token_symbol) ==
    \/ \E word \in ScamWords :
           str_contains(token_name, word) \/ str_contains(token_symbol, word)
    \/ Len(token_name) > 50
    \/ Len(token_symbol) > 10

\* is_potential_scam, lines 268-281: any(scam_indicators)
scam_indicators(token_name, token_symbol) ==
    \/ \E word \in ScamWords :
           \/ str_contains(str_lower(token_name), word)
           \/ str_contains(str_lower(token_symbol), word)
    \/ Len(token_name) > 50
    \/ Len(token_symbol) > 10

\* names and symbols get_token_metadata can return for a token
TokenNames ==
    {<<"D", "o", "g", "e">>, <<"T", "E", "S", "T">>,
     <<"m", "y", "F", "a", "k", "e">>, <<"S", "c", "a", "m", "m", "y">>,
     <<"H", "o", "n", "e", "y", "P", "o", "t">>, <<"t", "e", "s">>, <<>>,
     [i \in 1..50 |-> "x"], [i \in 1..51 |-> "x"]}
TokenSymbols ==
    {<<"D", "O", "G", "E">>, <<"t", "E", "s", "T">>, <<"F", "K">>,
     <<"S", "C", "A", "M">>, <<"x", "F", "a", "k", "e">>,
     [i \in 1..10 |-> "X"], [i \in 1..11 |-> "X"]}

\* a risk gate that looks at the risk level and the name only
is_potential_scam_by_risk(scam_info, name_flagged) ==
    scam_info.risk_level = "HIGH" \/ name_flagged

\* name_flagged: any(scam_indicators) over the token's name and symbol
is_potential_scam(scam_info, name_flagged) ==
    IF ~scam_info.has_pairs \/ scam_info.risk_level = "HIGH" THEN TRUE
    ELSE name_flagged

\* ------------------------------------------------------------------ trader.py
\* a target fixed at twice the entry price, whatever the wallet asks for
multiplier_doubling(profit_percentage) == 200

\* multiplier_for_target = 1 + (profit_percentage / 100.0), in percents
multiplier_for_target(profit_percentage) == 100 + profit_percentage

target_price_usdt(current_price_usdt, profit_percentage) ==
    current_price_usdt * multiplier_for_target(profit_percentage)

purchase_amount_usdt(wallet_balance_sol, sol_price_usdt, trade_percentage) ==
    (wallet_balance_sol * sol_price_usdt) * trade_percentage

\* a native amount from which the two reserves are taken off
purchase_amount_sol_less_reserves(amount_usdt, sol_price_usdt) ==
    amount_usdt \div sol_price_usdt
        - ATA_CREATION_COST_SOL - MINIMUM_GAS_FOR_FUTURE_TX

purchase_amount_sol(amount_usdt, sol_price_usdt) == amount_usdt \div sol_price_usdt

\* line 323, int(purchase_amount_sol * 1_000_000_000): 1e-8 SOL to lamports
sol_to_spend_lamports(amount_sol) == amount_sol * 10

\* a requirement of the spend alone
TOTAL_REQUIRED_SOL_spend_only(amount_sol) == amount_sol

TOTAL_REQUIRED_SOL(amount_sol) ==
    amount_sol + ATA_CREATION_COST_SOL + MINIMUM_GAS_FOR_FUTURE_TX

\* a sufficiency check that forgets the two reserves
insufficient_funds_without_reserves(wallet_balance_sol, amount_sol) ==
    wallet_balance_sol * 100 < amount_sol

\* `if wallet_balance_sol < TOTAL_REQUIRED_SOL` (balance brought to 1e-8 SOL)
insufficient_funds(wallet_balance_sol, amount_sol) ==
    wallet_balance_sol * 100 < TOTAL_REQUIRED_SOL(amount_sol)

\* a loop condition with twice the budget
within_timeout_doubled(elapsed) == elapsed < 2 * CONFIRM_TIMEOUT

\* `while time.time() - start_time < timeout`
within_timeout(elapsed) == elapsed < CONFIRM_TIMEOUT

\* buy_token returns to the fan-out of monitor_new_tokens; of the finished
\* call the arguments, the checks it made and its result stay on record
buy_return(frame, outcome, result) ==
    /\ pc' = "buy_fanout"
    /\ bt' = [frame EXCEPT !.outcome = outcome, !.result = result,
                           !.profit_percentage = 0, !.current_price_usdt = 0,
                           !.purchase_amount_usdt = 0, !.tx_sig = 0,
                           !.elapsed = 0, !.spot_at_confirmation = 0,
                           !.purchase_amount_sol = 0]
    /\ wallets_left' = Tail(wallets_left)
    /\ new_tokens' = IF Len(wallets_left) = 1 THEN Tail(new_tokens) ELSE new_tokens

\* for token_address in new_tokens / for wallet_name in user_wallets.keys()
buy_fanout_step ==
    /\ pc = "buy_fanout"
    /\ IF new_tokens = <<>>
       THEN /\ pc' = "sell_fanout"
            /\ wallets_left' = registered_wallets
            /\ bt' = NoBuy
            /\ UNCHANGED buy_calls
       ELSE /\ pc' = "bt_gate"
            /\ wallets_left' = IF wallets_left = <<>> THEN registered_wallets
                               ELSE wallets_left
            /\ LET w == wallets_left'[1]
               IN  /\ bt' = [NoBuy EXCEPT !.user_id = w[1], !.wallet_name = w[2],
                                          !.token_address = new_tokens[1],
                                          !.entry_store = store[w]]
                   /\ buy_calls' = counted(buy_calls, <<w, new_tokens[1]>>)
    /\ UNCHANGED <<config, store, processed_tokens, new_tokens, disc, cs, st,
                   accepted_count>>

\* one store file for all the wallets of a user
purchased_tokens_file_per_user(user_id, wallet_name) == <<user_id, "A">>

\* os.path.join(PURCHASED_TOKENS_DIR, f"{user_id}_{wallet_name}.json"):
\* the key of the pair's file in store
purchased_tokens_file(user_id, wallet_name) == <<user_id, wallet_name>>

\* a gate that only refuses percentages that are not positive
trade_percentage_out_of_range_low_only(trade_percentage) ==
    trade_percentage <= 0

\* buy_token, line 253: the configured percentage is outside (0, 100]
trade_percentage_out_of_range(trade_percentage) ==
    trade_percentage <= 0 \/ trade_percentage > 100

\* buy_token, lines 220-267: risk gate, wallet configuration, trade percentage
buy_token_gate(resp, name_flagged) ==
    /\ pc = "bt_gate"
    /\ LET scam_info == filters_check_token_scam_risk(resp)
           checked == [bt EXCEPT !.has_pairs = IF scam_info.has_pairs THEN "yes"
                                               ELSE "no"]
           wallet_config == get_wallet_config(bt.user_id, bt.wallet_name)
           trade_percentage == wallet_config.trade_percentage
       IN  IF is_potential_scam(scam_info, name_flagged)
           THEN buy_return(checked, "scam", "False")
           ELSE IF trade_percentage_out_of_range(trade_percentage)
           THEN buy_return(checked, "bad_percent", "False")
           ELSE /\ pc' = "bt_size"
                /\ bt' = [checked EXCEPT
                             !.trade_percentage = trade_percentage,
                             !.profit_percentage = wallet_config.profit_percentage]
                /\ UNCHANGED <<wallets_left, new_tokens>>
    /\ UNCHANGED <<config, store, processed_tokens, disc, cs, st,
                   accepted_count, buy_calls>>

\* monitor_new_tokens, lines 413-422: the try is around the loop over the
\* wallets of one user, so an exception that leaves buy_token ends that
\* loop; the wallets of the other users are still to be visited
wallets_after_exception(left) ==
    SelectSeq(Tail(left), LAMBDA w : w[1] # left[1][1])

\* buy_token, line 234, outside every try of buy_token: the metadata of
\* the token has a null name or symbol, check_token_scam_risk found pairs
\* and no high risk, and is_potential_scam raises AttributeError on
\* token_name.lower() (filters.py 268-279); the exception reaches the
\* handler of monitor_new_tokens
buy_token_raises(resp) ==
    /\ pc = "bt_gate"
    /\ LET scam_info == filters_check_token_scam_risk(resp)
       IN  /\ scam_info.has_pairs /\ scam_info.risk_level # "HIGH"
           /\ bt' = [bt EXCEPT !.has_pairs = "yes", !.outcome = "raised",
                               !.result = "exception"]
    /\ pc' = "buy_fanout"
    /\ wallets_left' = wallets_after_exception(wallets_left)
    /\ new_tokens' = IF wallets_left' = <<>> THEN Tail(new_tokens) ELSE new_tokens
    /\ UNCHANGED <<config, store, processed_tokens, disc, cs, st,
                   accepted_count, buy_calls>>

\* guards that let a token without a price through
quote_unavailable_ignoring_price(sol_price, balance_sol, token_price) ==
    sol_price <= 0 \/ balance_sol <= 0

\* `if sol_price_usdt <= 0`, `if wallet_balance_sol <= 0`,
\* `if current_price_usdt <= 0`: each raises into the handler of line 446
quote_unavailable(sol_price_usdt, wallet_balance_sol, current_price_usdt) ==
    sol_price_usdt <= 0 \/ wallet_balance_sol <= 0 \/ current_price_usdt <= 0

\* the insufficient-funds branch: `return False` of line 320, or, when
\* send_message raises, the `return False` of line 456
insufficient_result(notified) == IF notified THEN "False" ELSE "False"

\* buy_token, lines 269-320: rates, balance, sizing and the sufficiency check
buy_token_size(sol_price_usdt, wallet_balance_sol, current_price_usdt, notified) ==
    /\ pc = "bt_size"
    /\ IF quote_unavailable(sol_price_usdt, wallet_balance_sol, current_price_usdt)
       THEN /\ notified
            /\ buy_return(bt, "error", "False")
       ELSE LET amount_usdt == purchase_amount_usdt(wallet_balance_sol,
                                   sol_price_usdt, bt.trade_percentage)
                amount_sol == purchase_amount_sol(amount_usdt, sol_price_usdt)
                sized == [bt EXCEPT !.wallet_balance_sol = wallet_balance_sol,
                                    !.current_price_usdt = current_price_usdt,
                                    !.purchase_amount_usdt = amount_usdt,
                                    !.purchase_amount_sol = amount_sol]
            IN  IF insufficient_funds(wallet_balance_sol, amount_sol)
                THEN buy_return(sized, "insufficient", insufficient_result(notified))
                ELSE /\ notified
                     /\ pc' = "bt_swap"
                     /\ bt' = sized
                     /\ UNCHANGED <<wallets_left, new_tokens>>
    /\ UNCHANGED <<config, store, processed_tokens, disc, cs, st, accepted_count, buy_calls>>

\* what the quote endpoint and the swap endpoint answer to one client call:
\* the request that raises (if any), the status of the quote, of the first
\* build and of the build with useSharedAccounts, and the JSON body of the
\* last build
SwapReplies ==
    [raises : {"quote", ""}, quote : {500}, build : {500}, build_shared : {500},
     body : {"empty"}]
    \cup [raises : {"build", ""}, quote : {200}, build : {500},
          build_shared : {500}, body : {"empty"}]
    \cup [raises : {"build_shared"}, quote : {200}, build : {500},
          build_shared : {500}, body : {"empty"}]
    \cup [raises : {""}, quote : {200}, build : {200}, build_shared : {500},
          body : {"tx", "no_field", "empty"}]
    \cup [raises : {""}, quote : {200}, build : {500}, build_shared : {200},
          body : {"tx", "no_field", "empty"}]

\* a client that gives up after the first build request
swap_posts_once(reply) ==
    IF reply.raises = "quote" \/ reply.quote # 200 THEN <<>>
    ELSE <<[useSharedAccounts |-> FALSE, quoteResponse |-> "quote_data"]>>

\* the POSTs to JUPITER_SWAP_URL of one client call, in order (lines 183-202)
swap_posts(reply) ==
    LET first == [useSharedAccounts |-> FALSE, quoteResponse |-> "quote_data"]
        second == [useSharedAccounts |-> TRUE, quoteResponse |-> "quote_data"]
    IN  IF reply.raises = "quote" \/ reply.quote # 200 THEN <<>>
        ELSE IF reply.raises = "build" \/ reply.build = 200 THEN <<first>>
        ELSE <<first, second>>

\* get_jupiter_swap_transaction_improved, lines 167-213: "None", or the JSON
\* body of the last build: "tx" holds 'swapTransaction', "no_field" is a
\* dict without it, "empty" is {}
get_jupiter_swap_transaction_improved(reply) ==
    IF reply.raises # "" THEN "None"
    ELSE IF reply.quote # 200 THEN "None"
    ELSE IF reply.build # 200 /\ reply.build_shared # 200 THEN "None"
    ELSE reply.body

\* `if not swap_transaction`: None and {} are false
no_swap_transaction(swap_transaction) == swap_transaction \in {"None", "empty"}

\* buy_token, lines 322-348: the swap request; a false answer is "no
\* route", an answer without 'swapTransaction' raises KeyError at line 347
\* into the handler of line 446.  The POSTs of the client stay on record
\* until the answer has been used.
buy_token_swap(reply) ==
    /\ pc = "bt_swap"
    /\ LET swap_transaction == get_jupiter_swap_transaction_improved(reply)
           asked == [bt EXCEPT !.swap_requested = TRUE,
                               !.amount = sol_to_spend_lamports(bt.purchase_amount_sol),
                               !.build_requests = swap_posts(reply)]
       IN  IF no_swap_transaction(swap_transaction)
           THEN buy_return(asked, "no_route", "False")
           ELSE IF swap_transaction = "no_field"
           THEN buy_return(asked, "error", "False")
           ELSE /\ pc' = "bt_send"
                /\ bt' = asked
                /\ UNCHANGED <<wallets_left, new_tokens>>
    /\ UNCHANGED <<config, store, processed_tokens, disc, cs, st,
                   accepted_count, buy_calls>>

\* buy_token, lines 346-369: decoding or signing raises, or the transaction
\* is larger than 1232 bytes
buy_token_send_fails(outcome) ==
    /\ pc = "bt_send"
    /\ buy_return([bt EXCEPT !.build_requests = <<>>], outcome, "False")
    /\ UNCHANGED <<config, store, processed_tokens, disc, cs, st,
                   accepted_count, buy_calls>>

\* buy_token, lines 371-378: send_raw_transaction answers with a signature
buy_token_broadcast(tx_sig) ==
    /\ pc = "bt_send"
    /\ pc' = "bt_confirm"
    /\ bt' = [bt EXCEPT !.tx_sig = tx_sig, !.elapsed = 0,
                        !.build_requests = <<>>]
    /\ UNCHANGED <<config, store, processed_tokens, new_tokens, wallets_left,
                   disc, cs, st, accepted_count, buy_calls>>

\* buy_token, lines 379-386: one pass of the confirmation loop without a status
buy_token_poll(poll, seconds) ==
    /\ pc = "bt_confirm"
    /\ within_timeout(bt.elapsed)
    /\ bt' = [bt EXCEPT !.elapsed = @ + seconds]
    /\ UNCHANGED <<config, store, processed_tokens, pc, new_tokens, wallets_left,
                   disc, cs, st, accepted_count, buy_calls>>

\* buy_token, lines 381-383: a status arrived, break; spot is what the
\* token trades at on the market at that moment (the code does not ask)
buy_token_confirmed(spot) ==
    /\ pc = "bt_confirm"
    /\ within_timeout(bt.elapsed)
    /\ pc' = "bt_record"
    /\ bt' = [bt EXCEPT !.spot_at_confirmation = spot]
    /\ UNCHANGED <<config, store, processed_tokens, new_tokens, wallets_left,
                   disc, cs, st, accepted_count, buy_calls>>

\* a confirmation loop whose expiry is taken for a confirmation
buy_token_timeout_recording ==
    /\ pc = "bt_confirm"
    /\ ~within_timeout(bt.elapsed)
    /\ pc' = "bt_record"
    /\ UNCHANGED <<config, store, processed_tokens, new_tokens, wallets_left,
                   disc, bt, cs, st, accepted_count, buy_calls>>

\* buy_token, lines 387-399: the else branch of the loop
buy_token_timeout ==
    /\ pc = "bt_confirm"
    /\ ~within_timeout(bt.elapsed)
    /\ buy_return(bt, "timeout", "False")
    /\ UNCHANGED <<config, store, processed_tokens, disc, cs, st,
                   accepted_count, buy_calls>>

\* the record buy_token writes for the token
new_position(token_address, price_usdt, profit_percentage, amount_usdt, tx_sig) ==
    [token |-> token_address,
     purchase_price_usdt |-> price_usdt,
     current_price_usdt |-> price_usdt,
     target_price_usdt |-> target_price_usdt(price_usdt, profit_percentage),
     profit_percentage_target |-> profit_percentage,
     purchase_amount_usdt |-> amount_usdt,
     tx_signature |-> tx_sig]

\* buy_token, lines 401-445: target, read-modify-write of the store, notification
buy_token_record(notified) ==
    /\ pc = "bt_record"
    /\ LET w == purchased_tokens_file(bt.user_id, bt.wallet_name)
           purchased_tokens == load_or_new(store[w])
       IN  /\ store' = [store EXCEPT ![w] =
                  DictPut(purchased_tokens, bt.token_address,
                          new_position(bt.token_address, bt.current_price_usdt,
                                       bt.profit_percentage,
                                       bt.purchase_amount_usdt, bt.tx_sig))]
    /\ buy_return(bt, "bought", IF notified THEN "None" ELSE "True")
    /\ UNCHANGED <<config, processed_tokens, disc, cs, st, accepted_count, buy_calls>>


\* sell_token returns into the loop body of check_and_sell_tokens, lines 488-494
sell_return(outcome, sold) ==
    /\ pc' = "cs_loop"
    /\ st' = [NoSell EXCEPT !.token_address = st.token_address,
                            !.outcome = outcome]
    /\ cs' = [cs EXCEPT
                 !.idx = @ + 1,
                 !.sold_any = IF sold THEN TRUE ELSE @,
                 !.updated_tokens = IF sold THEN DictDel(@, st.token_address) ELSE @,
                 !.outcomes = @ \cup {<<st.token_address, outcome>>}]

\* a skip that forgets the last known price
skipped_record_without_price(token_data) ==
    [token_data EXCEPT !.current_price_usdt = 0]

\* line 477, updated_tokens[token_address] = token_data: what the cycle
\* keeps of a position whose price could not be fetched
skipped_record(token_data) == token_data

\* a comparison that sells whatever has no target
target_reached_without_target_check(current_price_usdt, target_price) ==
    current_price_usdt * 100 >= target_price

\* `if current_price_usdt >= target_price and target_price > 0`
target_reached(current_price_usdt, target_price) ==
    current_price_usdt * 100 >= target_price /\ target_price > 0

\* the fan-out over all wallets and check_and_sell_tokens, lines 458-470
sell_fanout_step ==
    /\ pc = "sell_fanout"
    /\ IF wallets_left = <<>>
       THEN /\ pc' = "sleep"
            /\ cs' = NoCheck
            /\ UNCHANGED wallets_left
       ELSE LET w == wallets_left[1]
            IN  IF nothing_to_check(store[w])
                THEN /\ wallets_left' = Tail(wallets_left)
                     /\ cs' = NoCheck
                     /\ UNCHANGED pc
                ELSE /\ pc' = "cs_loop"
                     /\ cs' = [NoCheck EXCEPT !.user_id = w[1], !.wallet_name = w[2],
                                              !.purchased_tokens = store[w],
                                              !.idx = 1]
                     /\ UNCHANGED wallets_left
    /\ UNCHANGED <<config, store, processed_tokens, new_tokens, disc, bt, st, accepted_count, buy_calls>>

\* check_and_sell_tokens, lines 473-487: one position of the loop
check_and_sell_price(current_price_usdt) ==
    /\ pc = "cs_loop"
    /\ cs.idx <= Len(cs.purchased_tokens)
    /\ LET token_data == cs.purchased_tokens[cs.idx]
           token_address == token_data.token
       IN  IF current_price_usdt <= 0
           THEN /\ cs' = [cs EXCEPT
                             !.updated_tokens = DictPut(@, token_address,
                                                        skipped_record(token_data)),
                             !.idx = @ + 1]
                /\ UNCHANGED <<pc, st>>
           ELSE LET priced == [token_data EXCEPT
                                  !.current_price_usdt = current_price_usdt]
                    updated == [cs EXCEPT
                                  !.updated_tokens = DictPut(@, token_address, priced),
                                  !.fetched = @ \cup {token_address}]
                IN  IF target_reached(current_price_usdt,
                                      token_data.target_price_usdt)
                    THEN /\ pc' = "st_start"
                         /\ cs' = updated
                         /\ st' = [NoSell EXCEPT !.token_address = token_address]
                    ELSE /\ cs' = [updated EXCEPT !.idx = @ + 1]
                         /\ UNCHANGED <<pc, st>>
    /\ UNCHANGED <<config, store, processed_tokens, new_tokens, wallets_left,
                   disc, bt, accepted_count, buy_calls>>

\* the token accounts of one mint that get_token_accounts_by_owner lists
\* for a wallet, each with its amount
TokenAccounts ==
    UNION {[1..n -> TokenBalances] : n \in 0..MaxTokenAccounts}

\* what the wallet holds of the mint on chain: the sum over its accounts
RECURSIVE on_chain_balance(_)
on_chain_balance(accounts) ==
    IF accounts = <<>> THEN 0
    ELSE Head(accounts) + on_chain_balance(Tail(accounts))

\* get_token_balance, lines 506-531: the amount of the first account
\* listed, 0 when none is listed or the request raises
get_token_balance(ok, accounts) ==
    IF ~ok THEN 0
    ELSE IF accounts = <<>> THEN 0
    ELSE accounts[1]

\* sell_token, lines 549-553: the live balance of the token is zero
sell_token_no_balance(ok, accounts) ==
    /\ pc = "st_start"
    /\ get_token_balance(ok, accounts) <= 0
    /\ sell_return("zero_balance", FALSE)
    /\ UNCHANGED <<config, store, processed_tokens, new_tokens, wallets_left,
                   disc, bt, accepted_count, buy_calls>>

\* sell_token, lines 555-583: swap request, decode and sign
sell_token_swap(ok, accounts, reply) ==
    /\ pc = "st_start"
    /\ get_token_balance(ok, accounts) > 0
    /\ IF no_swap_transaction(get_jupiter_swap_transaction_improved(reply))
       THEN sell_return("no_route", FALSE)
       ELSE IF get_jupiter_swap_transaction_improved(reply) = "no_field"
       THEN sell_return("error", FALSE)
       ELSE /\ pc' = "st_send"
            /\ st' = [st EXCEPT !.swap_requested = TRUE,
                                !.amount = get_token_balance(ok, accounts)]
            /\ UNCHANGED cs
    /\ UNCHANGED <<config, store, processed_tokens, new_tokens, wallets_left,
                   disc, bt, accepted_count, buy_calls>>

\* sell_token, lines 572-588 and 640-650: signing or broadcasting raises
sell_token_send_fails ==
    /\ pc = "st_send"
    /\ sell_return("error", FALSE)
    /\ UNCHANGED <<config, store, processed_tokens, new_tokens, wallets_left,
                   disc, bt, accepted_count, buy_calls>>

\* sell_token, lines 585-592: send_raw_transaction answers with a signature
sell_token_broadcast(tx_sig) ==
    /\ pc = "st_send"
    /\ pc' = "st_confirm"
    /\ st' = [st EXCEPT !.tx_sig = tx_sig, !.elapsed = 0]
    /\ UNCHANGED <<config, store, processed_tokens, new_tokens, wallets_left,
                   disc, bt, cs, accepted_count, buy_calls>>

\* sell_token, lines 593-600: one pass of the confirmation loop without a status
sell_token_poll(poll, seconds) ==
    /\ pc = "st_confirm"
    /\ within_timeout(st.elapsed)
    /\ st' = [st EXCEPT !.elapsed = @ + seconds]
    /\ UNCHANGED <<config, store, processed_tokens, pc, new_tokens, wallets_left,
                   disc, bt, cs, accepted_count, buy_calls>>

\* sell_token, lines 595-597 and 605-622: a status arrived; the success
\* notification is awaited next
sell_token_confirmed ==
    /\ pc = "st_confirm"
    /\ within_timeout(st.elapsed)
    /\ pc' = "st_notify"
    /\ UNCHANGED <<config, store, processed_tokens, new_tokens, wallets_left,
                   disc, bt, cs, st, accepted_count, buy_calls>>

\* sell_token, lines 601-603: the else branch of the loop
sell_token_timeout ==
    /\ pc = "st_confirm"
    /\ ~within_timeout(st.elapsed)
    /\ sell_return("timeout", FALSE)
    /\ UNCHANGED <<config, store, processed_tokens, new_tokens, wallets_left,
                   disc, bt, accepted_count, buy_calls>>

\* sell_token, lines 624-638: notification sent or not, return True
sell_token_sold(notified) ==
    /\ pc = "st_notify"
    /\ sell_return("sold", TRUE)
    /\ UNCHANGED <<config, store, processed_tokens, new_tokens, wallets_left,
                   disc, bt, accepted_count, buy_calls>>

\* what check_and_sell_tokens leaves in the file, lines 496-498
written_back(persisted, updated_tokens, sold_any) ==
    IF sold_any THEN updated_tokens ELSE persisted

\* check_and_sell_tokens, lines 496-499: after the last position
check_and_sell_write ==
    /\ pc = "cs_loop"
    /\ cs.idx > Len(cs.purchased_tokens)
    /\ LET w == purchased_tokens_file(cs.user_id, cs.wallet_name)
       IN  store' = [store EXCEPT ![w] =
                        written_back(@, cs.updated_tokens, cs.sold_any)]
    /\ pc' = "cs_done"
    /\ UNCHANGED <<config, processed_tokens, new_tokens, wallets_left, disc, bt,
                   cs, st, accepted_count, buy_calls>>

\* check_and_sell_tokens returns to the fan-out
check_and_sell_return ==
    /\ pc = "cs_done"
    /\ pc' = "sell_fanout"
    /\ wallets_left' = Tail(wallets_left)
    /\ cs' = NoCheck
    /\ st' = NoSell
    /\ UNCHANGED <<config, store, processed_tokens, new_tokens, disc, bt,
                   accepted_count, buy_calls>>

\* monitor_new_tokens, lines 439-442: await asyncio.sleep(check_interval)
\* monitor_new_tokens, lines 442-446: an exception leaves the cycle.  Inside
\* the cycle WalletManager() and glob.glob stand outside the per-user try,
\* before the fan-out of a token (410-412) and before the exit fan-out
\* (425-426).  What the cycle had still to do is dropped; the handler sleeps
\* wait_time
cycle_raises ==
    /\ pc \in {"buy_fanout", "sell_fanout"}
    /\ pc' = "backoff"
    /\ new_tokens' = <<>>
    /\ wallets_left' = <<>>
    /\ bt' = NoBuy
    /\ cs' = NoCheck
    /\ UNCHANGED <<config, store, processed_tokens, disc, st, accepted_count, buy_calls>>

\* line 446, await asyncio.sleep(wait_time), then `while True` again
backoff_over ==
    /\ pc = "backoff"
    /\ pc' = "cycle"
    /\ UNCHANGED <<config, store, processed_tokens, new_tokens, wallets_left,
                   disc, bt, cs, st, accepted_count, buy_calls>>

\* a handler that sleeps no longer than the normal interval
seconds_slept_always_interval(at) ==
    IF at \in {"sleep", "backoff"} THEN CHECK_INTERVAL ELSE 0

\* the seconds the task sleeps at a position: check_interval after a cycle
\* (439-441), wait_time in the handler (444-446)
seconds_slept(at) ==
    IF at = "sleep" THEN CHECK_INTERVAL
    ELSE IF at = "backoff" THEN WAIT_TIME
    ELSE 0

sleep_over ==
    /\ pc = "sleep"
    /\ pc' = "cycle"
    /\ UNCHANGED <<config, store, processed_tokens, new_tokens, wallets_left,
                   disc, bt, cs, st, accepted_count, buy_calls>>

\* the process is stopped and started again: files stay, memory is lost
restart ==
    /\ pc' = "cycle"
    /\ processed_tokens' = {}
    /\ new_tokens' = <<>>
    /\ wallets_left' = <<>>
    /\ disc' = NoDisc
    /\ bt' = NoBuy
    /\ cs' = NoCheck
    /\ st' = NoSell
    /\ accepted_count' = [t \in Tokens |-> 0]
    /\ buy_calls' = [c \in DOMAIN buy_calls |-> 0]
    /\ UNCHANGED <<config, store>>

\* the steps of the program when the provider lists the addresses `listed`
\* the steps of the monitor task (run_monitor), over the addresses `listed`
MonitorTask(listed) ==
    \/ \E ok \in BOOLEAN : get_new_tokens_request(ok)
    \/ \E t \in listed, resp \in MonitorResponses : discover_candidate(t, resp)
    \/ get_new_tokens_return
    \/ buy_fanout_step
    \/ \E resp \in FilterResponses, flagged \in BOOLEAN : buy_token_gate(resp, flagged)
    \/ \E resp \in FilterResponses : buy_token_raises(resp)
    \/ \E sol \in SolPrices, bal \in Balances, p \in Prices, notified \in BOOLEAN :
           buy_token_size(sol, bal, p, notified)
    \/ \E reply \in SwapReplies : buy_token_swap(reply)
    \/ \E o \in {"error", "too_big"} : buy_token_send_fails(o)
    \/ \E sig \in Sigs : buy_token_broadcast(sig)
    \/ \E poll \in {"none", "exception"}, d \in PollSeconds : buy_token_poll(poll, d)
    \/ \E spot \in Prices \ {0} : buy_token_confirmed(spot)
    \/ buy_token_timeout
    \/ \E notified \in BOOLEAN : buy_token_record(notified)
    \/ sell_fanout_step
    \/ \E p \in Prices : check_and_sell_price(p)
    \/ \E ok \in BOOLEAN, accounts \in TokenAccounts :
           sell_token_no_balance(ok, accounts)
    \/ \E ok \in BOOLEAN, accounts \in TokenAccounts, reply \in SwapReplies :
           sell_token_swap(ok, accounts, reply)
    \/ sell_token_send_fails
    \/ \E sig \in Sigs : sell_token_broadcast(sig)
    \/ \E poll \in {"none", "exception"}, d \in PollSeconds : sell_token_poll(poll, d)
    \/ sell_token_confirmed
    \/ sell_token_timeout
    \/ \E notified \in BOOLEAN : sell_token_sold(notified)
    \/ check_and_sell_write
    \/ check_and_sell_return
    \/ sleep_over
    \/ cycle_raises
    \/ backoff_over

NextOver(listed) ==
    \/ MonitorTask(listed)
    \/ \E u \in Users, v \in TradeInputs :
           \E n \in DOMAIN config[u] : get_new_trade_percent(u, n, v)
    \/ \E u \in Users, v \in ProfitInputs :
           \E n \in DOMAIN config[u] : get_new_profit_percent(u, n, v)
    \/ restart

\* two wallets of one user, one address on the market
Init == InitWith(WalletNames)

Next == NextOver({"T1"})

Spec == Init /\ [][Next]_vars

\* the same program, with the history of the calls of buy_token kept
InitCalls ==
    /\ config = [u \in Users |-> [n \in WalletNames |-> add_wallet(u, n)]]
    /\ store = [w \in Users \X WalletNames |-> <<>>]
    /\ processed_tokens = {}
    /\ pc = "cycle"
    /\ new_tokens = <<>>
    /\ wallets_left = <<>>
    /\ disc = NoDisc
    /\ bt = NoBuy
    /\ cs = NoCheck
    /\ st = NoSell
    /\ accepted_count = [t \in Tokens |-> 0]
    /\ buy_calls = NoCalls

SpecCalls == InitCalls /\ [][Next]_vars

\* ------------------------------------------------- a crash inside a write
\* buy_token, lines 430-431: the process dies after open(..., 'w') truncated
\* the file and before json.dump wrote its last byte; memory is lost
crash_in_buy_write ==
    /\ pc = "bt_record"
    /\ store' = [store EXCEPT ![purchased_tokens_file(bt.user_id, bt.wallet_name)] = PartialFile]
    /\ pc' = "cycle"
    /\ processed_tokens' = {}
    /\ new_tokens' = <<>>
    /\ wallets_left' = <<>>
    /\ disc' = NoDisc
    /\ bt' = NoBuy
    /\ cs' = NoCheck
    /\ st' = NoSell
    /\ accepted_count' = [t \in Tokens |-> 0]
    /\ buy_calls' = [c \in DOMAIN buy_calls |-> 0]
    /\ UNCHANGED config

\* check_and_sell_tokens, lines 496-498: the same inside the write-back
crash_in_sell_write ==
    /\ pc = "cs_loop"
    /\ cs.idx > Len(cs.purchased_tokens)
    /\ cs.sold_any
    /\ store' = [store EXCEPT ![purchased_tokens_file(cs.user_id, cs.wallet_name)] = PartialFile]
    /\ pc' = "cycle"
    /\ processed_tokens' = {}
    /\ new_tokens' = <<>>
    /\ wallets_left' = <<>>
    /\ disc' = NoDisc
    /\ bt' = NoBuy
    /\ cs' = NoCheck
    /\ st' = NoSell
    /\ accepted_count' = [t \in Tokens |-> 0]
    /\ buy_calls' = [c \in DOMAIN buy_calls |-> 0]
    /\ UNCHANGED config

\* the program of Spec, with the process also dying inside its writes
NextCrash ==
    \/ Next
    \/ crash_in_buy_write
    \/ crash_in_sell_write

SpecCrash == Init /\ [][NextCrash]_vars

\* ------------------------------------------------------ risk scoring
\* buy_token at its risk gate, the answers of DexScreener and RugCheck for
\* the token being any of PairData
InitRisk ==
    /\ config = [u \in Users |-> [n \in {"A"} |-> add_wallet(u, n)]]
    /\ store = [w \in Users \X WalletNames |-> <<>>]
    /\ processed_tokens = {"T1"}
    /\ pc = "bt_gate"
    /\ new_tokens = <<"T1">>
    /\ wallets_left = <<<<1, "A">>>>
    /\ disc = NoDisc
    /\ \E d \in PairData :
           bt = [NoBuy EXCEPT !.user_id = 1, !.wallet_name = "A",
                              !.token_address = "T1", !.pair_data = d]
    /\ cs = NoCheck
    /\ st = NoSell
    /\ accepted_count = [t \in Tokens |-> IF t = "T1" THEN 1 ELSE 0]
    /\ buy_calls = Untracked

\* the call of filters.check_token_scam_risk made by is_potential_scam
check_token_scam_risk_call ==
    /\ pc = "bt_gate"
    /\ bt.pair_data # <<>>
    /\ bt.scam_info = <<>>
    /\ bt' = [bt EXCEPT !.scam_info = filters_scam_info(bt.pair_data)]
    /\ UNCHANGED <<config, store, processed_tokens, pc, new_tokens,
                   wallets_left, disc, cs, st, accepted_count, buy_calls>>

NextRisk == check_token_scam_risk_call

SpecRisk == InitRisk /\ [][NextRisk]_vars

\* ------------------------------------------------------ the buy-time gate
\* buy_token at its risk gate (lines 224-234) for a token whose metadata
\* gave any of the names and symbols above
InitGate ==
    /\ config = [u \in Users |-> [n \in {"A"} |-> add_wallet(u, n)]]
    /\ store = [w \in Users \X WalletNames |-> <<>>]
    /\ processed_tokens = {"T1"}
    /\ pc = "bt_gate"
    /\ new_tokens = <<"T1">>
    /\ wallets_left = <<<<1, "A">>>>
    /\ disc = NoDisc
    /\ \E name \in TokenNames, symbol \in TokenSymbols :
           bt = [NoBuy EXCEPT !.user_id = 1, !.wallet_name = "A",
                              !.token_address = "T1",
                              !.token_name = name, !.token_symbol = symbol]
    /\ cs = NoCheck
    /\ st = NoSell
    /\ accepted_count = [t \in Tokens |-> IF t = "T1" THEN 1 ELSE 0]
    /\ buy_calls = Untracked

\* the gate of buy_token with the indicators of the token's name and symbol
NextGate ==
    \E resp \in FilterResponses :
        buy_token_gate(resp, scam_indicators(bt.token_name, bt.token_symbol))

SpecGate == InitGate /\ [][NextGate]_vars

\* ------------------------------------------------------ the price client
MaxPairs == 2

\* str.upper()
str_upper(str) ==
    [i \in 1..Len(str) |->
        IF \E k \in 1..26 : LowerCase[k] = str[i]
        THEN UpperCase[CHOOSE k \in 1..26 : LowerCase[k] = str[i]]
        ELSE str[i]]

SOL == <<"S", "O", "L">>
QuoteSymbols == {SOL, <<"s", "o", "l">>, <<"U", "S", "D", "C">>}

\* priceUsd of a pair: a number, or a value float() does not accept
NotANumber == -1
PriceUsds == {NotANumber, 0, 5, 7}

Pairs == [quote_symbol : QuoteSymbols, price_usd : PriceUsds]

\* answers of DexScreener to a request for the pairs of a token
PairListings(n) == UNION {[1..k -> Pairs] : k \in 0..n}
PriceReplies(n) ==
    [kind : {"non_200", "bad_json", "network_error", "no_pairs_key"}]
    \cup [kind : {"ok"}, pairs : PairListings(n)]

\* position of the first pair of the listing from position i on that is
\* quoted in SOL and whose price parses; 0 when there is no such pair
RECURSIVE first_sol_pair(_, _)
first_sol_pair(pairs, i) ==
    IF i > Len(pairs) THEN 0
    ELSE IF /\ str_upper(pairs[i].quote_symbol) = SOL
            /\ pairs[i].price_usd # NotANumber
         THEN i
         ELSE first_sol_pair(pairs, i + 1)

\* solana_utils.get_token_price_usdt: as above, for positive prices only
RECURSIVE first_positive_sol_price(_, _)
first_positive_sol_price(pairs, i) ==
    IF i > Len(pairs) THEN 0
    ELSE IF /\ str_upper(pairs[i].quote_symbol) = SOL
            /\ pairs[i].price_usd # NotANumber
            /\ pairs[i].price_usd > 0
         THEN pairs[i].price_usd
         ELSE first_positive_sol_price(pairs, i + 1)

get_token_price_usdt(reply) ==
    IF reply.kind = "ok" THEN first_positive_sol_price(reply.pairs, 1) ELSE 0

\* trader.get_token_current_price; `again` answers the request made by
\* get_token_price_usdt
get_token_current_price(reply, again) ==
    IF reply.kind \in {"non_200", "bad_json", "network_error"} THEN 0
    ELSE LET pairs == IF reply.kind = "ok" THEN reply.pairs ELSE <<>>
             found == first_sol_pair(pairs, 1)
         IN  IF found # 0 THEN pairs[found].price_usd
             ELSE get_token_price_usdt(again)

\* buy_token about to ask for the token's price (line 283), DexScreener
\* answering the request and the one that may follow it
InitPrice ==
    /\ config = [u \in Users |-> [n \in {"A"} |-> add_wallet(u, n)]]
    /\ store = [w \in Users \X WalletNames |-> <<>>]
    /\ processed_tokens = {"T1"}
    /\ pc = "bt_size"
    /\ new_tokens = <<"T1">>
    /\ wallets_left = <<<<1, "A">>>>
    /\ disc = NoDisc
    /\ \E reply \in PriceReplies(MaxPairs), again \in PriceReplies(1) :
           bt = [NoBuy EXCEPT !.user_id = 1, !.wallet_name = "A",
                              !.token_address = "T1",
                              !.price_reply = <<reply, again>>]
    /\ cs = NoCheck
    /\ st = NoSell
    /\ accepted_count = [t \in Tokens |-> IF t = "T1" THEN 1 ELSE 0]
    /\ buy_calls = Untracked

\* current_price_usdt = await get_token_current_price(token_address)
get_token_current_price_call ==
    /\ pc = "bt_size"
    /\ bt.price_reply # <<>>
    /\ bt' = [bt EXCEPT !.current_price_usdt =
                  get_token_current_price(bt.price_reply[1], bt.price_reply[2])]
    /\ pc' = "bt_priced"
    /\ UNCHANGED <<config, store, processed_tokens, new_tokens,
                   wallets_left, disc, cs, st, accepted_count, buy_calls>>

NextPrice == get_token_current_price_call

SpecPrice == InitPrice /\ [][NextPrice]_vars

\* ------------------------------------------------------ fair scheduling
\* the event loop runs the monitor task whenever it can take a step: every
\* await of the task returns (the HTTP calls carry timeouts, the sleeps are
\* finite).  One wallet is registered.
InitFair == InitWith({"A"})

SpecFair == InitFair /\ [][Next]_vars /\ WF_vars(MonitorTask({"T1"}))

\* ------------------------------------------------ stored wallet files
\* trade_percentage values found in a wallets file written before the
\* program starts: the file is read as it is by load_user_config, and
\* buy_token reads the value with wallet_config.get('trade_percentage', 1.0)
StoredPercents == {0, 1, 150}

\* one registered wallet whose stored trade_percentage is any of the above
InitStored ==
    /\ \E tp \in StoredPercents :
           config = [u \in Users |->
                        [n \in {"A"} |->
                            [add_wallet(u, n) EXCEPT !.trade_percentage = tp]]]
    /\ store = [w \in Users \X WalletNames |-> <<>>]
    /\ processed_tokens = {}
    /\ pc = "cycle"
    /\ new_tokens = <<>>
    /\ wallets_left = <<>>
    /\ disc = NoDisc
    /\ bt = NoBuy
    /\ cs = NoCheck
    /\ st = NoSell
    /\ accepted_count = [t \in Tokens |-> 0]
    /\ buy_calls = Untracked

SpecStored == InitStored /\ [][Next]_vars

\* --------------------------------------------- stored position files
\* target_price_usdt of a position found in a store file at start: what
\* buy_token wrote for a price of 2 and +0% or +100%, or 0, which is what
\* token_data.get('target_price_usdt', 0) reads from a record without one
StoredTargets == {0, 200, 400}

\* a position of T2 left in the file of wallet A by an earlier run
stored_position(target) ==
    [new_position("T2", 2, 100, 15000000, 1) EXCEPT !.target_price_usdt = target]

\* one registered wallet; its store file is absent or holds that position
InitPositions ==
    /\ config = [u \in Users |-> [n \in {"A"} |-> add_wallet(u, n)]]
    /\ \E file \in {<<>>} \cup {<<stored_position(t)>> : t \in StoredTargets} :
           store = [w \in Users \X WalletNames |->
                       IF w = <<1, "A">> THEN file ELSE <<>>]
    /\ processed_tokens = {}
    /\ pc = "cycle"
    /\ new_tokens = <<>>
    /\ wallets_left = <<>>
    /\ disc = NoDisc
    /\ bt = NoBuy
    /\ cs = NoCheck
    /\ st = NoSell
    /\ accepted_count = [t \in Tokens |-> 0]
    /\ buy_calls = Untracked

SpecPositions == InitPositions /\ [][Next]_vars

\* ------------------------------------------------- a drained token account
\* token accounts whose amounts add up to nothing: the tokens of the
\* position were moved out of the wallet by a transfer made elsewhere
DrainedAccounts == {accounts \in TokenAccounts : on_chain_balance(accounts) = 0}

\* the price every exit check gets: at or above each stored target
PriceAboveTargets == 4

\* wallet A holds a position with a positive target
InitDrained ==
    /\ config = [u \in Users |-> [n \in {"A"} |-> add_wallet(u, n)]]
    /\ \E t \in StoredTargets \ {0} :
           store = [w \in Users \X WalletNames |->
                       IF w = <<1, "A">> THEN <<stored_position(t)>> ELSE <<>>]
    /\ processed_tokens = {}
    /\ pc = "cycle"
    /\ new_tokens = <<>>
    /\ wallets_left = <<>>
    /\ disc = NoDisc
    /\ bt = NoBuy
    /\ cs = NoCheck
    /\ st = NoSell
    /\ accepted_count = [t \in Tokens |-> 0]
    /\ buy_calls = Untracked

\* the steps of the monitor task while the market lists T1, the price of
\* every held token is PriceAboveTargets and the token accounts are drained:
\* no cycle raises and the process is not restarted
NextDrained ==
    \/ \E ok \in BOOLEAN : get_new_tokens_request(ok)
    \/ \E resp \in MonitorResponses : discover_candidate("T1", resp)
    \/ get_new_tokens_return
    \/ buy_fanout_step
    \/ \E resp \in FilterResponses, flagged \in BOOLEAN : buy_token_gate(resp, flagged)
    \/ \E sol \in SolPrices, bal \in Balances, p \in Prices, notified \in BOOLEAN :
           buy_token_size(sol, bal, p, notified)
    \/ \E reply \in SwapReplies : buy_token_swap(reply)
    \/ \E o \in {"error", "too_big"} : buy_token_send_fails(o)
    \/ \E sig \in Sigs : buy_token_broadcast(sig)
    \/ \E poll \in {"none", "exception"}, d \in PollSeconds : buy_token_poll(poll, d)
    \/ \E spot \in Prices \ {0} : buy_token_confirmed(spot)
    \/ buy_token_timeout
    \/ \E notified \in BOOLEAN : buy_token_record(notified)
    \/ sell_fanout_step
    \/ check_and_sell_price(PriceAboveTargets)
    \/ \E accounts \in DrainedAccounts : sell_token_no_balance(TRUE, accounts)
    \/ check_and_sell_write
    \/ check_and_sell_return
    \/ sleep_over

SpecDrained == InitDrained /\ [][NextDrained]_vars /\ WF_vars(NextDrained)

\* ---------------------------------------- trader.monitor_purchased_tokens
\* two registered wallets, the store of wallet A absent or holding a position
InitPurchased ==
    /\ config = [u \in Users |-> [n \in WalletNames |-> add_wallet(u, n)]]
    /\ \E file \in {<<>>} \cup {<<stored_position(t)>> : t \in StoredTargets} :
           store = [w \in Users \X WalletNames |->
                       IF w = <<1, "A">> THEN file ELSE <<>>]
    /\ processed_tokens = {}
    /\ pc = "purchased_cycle"
    /\ new_tokens = <<>>
    /\ wallets_left = <<>>
    /\ disc = NoDisc
    /\ bt = NoBuy
    /\ cs = NoCheck
    /\ st = NoSell
    /\ accepted_count = [t \in Tokens |-> 0]
    /\ buy_calls = Untracked

\* monitor_purchased_tokens, lines 748-750: a cycle starts with every
\* registered wallet still to be checked
monitor_purchased_tokens_cycle ==
    /\ pc = "purchased_cycle"
    /\ pc' = "purchased_wallets"
    /\ wallets_left' = registered_wallets
    /\ UNCHANGED <<config, store, processed_tokens, new_tokens, disc, bt, cs,
                   st, accepted_count, buy_calls>>

\* line 751, wm.get_all_wallets(): WalletManager has no such method, the
\* AttributeError goes to the handler at 758-760, which sleeps
get_all_wallets_raises ==
    /\ pc = "purchased_wallets"
    /\ pc' = "purchased_sleep"
    /\ UNCHANGED <<config, store, processed_tokens, new_tokens, wallets_left,
                   disc, bt, cs, st, accepted_count, buy_calls>>

\* line 760, await asyncio.sleep(60) returns and the loop goes round
monitor_purchased_tokens_sleep_over ==
    /\ pc = "purchased_sleep"
    /\ pc' = "purchased_cycle"
    /\ wallets_left' = <<>>
    /\ UNCHANGED <<config, store, processed_tokens, new_tokens, disc, bt, cs,
                   st, accepted_count, buy_calls>>

\* the task of monitor_purchased_tokens next to the handlers of the bot
NextPurchased ==
    \/ monitor_purchased_tokens_cycle
    \/ get_all_wallets_raises
    \/ monitor_purchased_tokens_sleep_over
    \/ \E u \in Users, v \in TradeInputs :
           \E n \in DOMAIN config[u] : get_new_trade_percent(u, n, v)
    \/ \E u \in Users, v \in ProfitInputs :
           \E n \in DOMAIN config[u] : get_new_profit_percent(u, n, v)

SpecPurchased == InitPurchased /\ [][NextPurchased]_vars

\* ------------------------------------------- update_wallet_config on its own
\* values a caller may store under a percentage key
ConfigValues == {1, 50}

\* the update dicts handed to update_wallet_config: any subset of the two
\* percentage keys, with any of the values
Updates ==
    UNION {[K -> ConfigValues] :
              K \in SUBSET {"trade_percentage", "profit_percentage"}}

\* any set of wallets registered by add_wallet, the monitor idle
InitConfig == \E names \in SUBSET WalletNames : InitWith(names)

\* WalletManager.update_wallet_config called with any wallet name, known or not
update_wallet_config_call(user_id, wallet_name, updates) ==
    /\ update_wallet_config(user_id, wallet_name, updates)
    /\ UNCHANGED <<store, processed_tokens, pc, new_tokens, wallets_left,
                   disc, bt, cs, st, accepted_count, buy_calls>>

NextConfig ==
    \E u \in Users, n \in WalletNames, updates \in Updates :
        update_wallet_config_call(u, n, updates)

SpecConfig == InitConfig /\ [][NextConfig]_vars

\* ------------------------------------------------------- claim vocabulary
\* the wallet whose buy / whose exit check is in progress
bt_wallet == <<bt.user_id, bt.wallet_name>>

cs_wallet == <<cs.user_id, cs.wallet_name>>

\* the step in which buy_token writes the position of token t of wallet w
IsBuyRecord(w, t) ==
    pc = "bt_record" /\ pc' = "buy_fanout" /\ bt_wallet = w /\ bt.token_address = t

\* ===================================================================== C1
\* C1: every stored position has target_price_usdt = purchase_price_usdt *
\* (1 + profit_percentage_target / 100), with the profit percentage that
\* buy_token read from the wallet configuration during that buy; no later
\* step other than a buy of the same token (a monitoring cycle, a change of
\* the configuration) changes the target or the recorded percentage.
C1_TargetFixedAtBuy ==
    /\ [](\A w \in DOMAIN store : \A i \in 1..Len(store[w]) :
             store[w][i].target_price_usdt =
                 store[w][i].purchase_price_usdt
                     * (100 + store[w][i].profit_percentage_target))
    /\ [][(pc = "bt_gate" /\ pc' = "bt_size") =>
             bt'.profit_percentage =
                 get_wallet_config(bt.user_id, bt.wallet_name).profit_percentage]_vars
    /\ [][\A w \in DOMAIN store : \A t \in DictKeys(store'[w]) :
             IF IsBuyRecord(w, t)
             THEN /\ DictGet(store'[w], t).profit_percentage_target =
                         bt.profit_percentage
                  /\ DictGet(store'[w], t).purchase_price_usdt =
                         bt.current_price_usdt
             ELSE /\ t \in DictKeys(store[w])
                  /\ DictGet(store'[w], t).target_price_usdt =
                         DictGet(store[w], t).target_price_usdt
                  /\ DictGet(store'[w], t).profit_percentage_target =
                         DictGet(store[w], t).profit_percentage_target]_vars

\* an exit check has priced a position whose recorded percentage is no longer
\* the one of the wallet configuration
C1_Witness ==
    /\ pc = "cs_done"
    /\ \E t \in cs.fetched \cap DictKeys(store[cs_wallet]) :
          LET token_data == DictGet(store[cs_wallet], t)
          IN  /\ token_data.profit_percentage_target = DEFAULT_PROFIT_PERCENTAGE
              /\ get_wallet_config(cs.user_id, cs.wallet_name).profit_percentage = 0
              /\ token_data.target_price_usdt = token_data.purchase_price_usdt * 200

\* ===================================================================== C2
\* C2: every stored position has purchase_price_usdt > 0 and
\* purchase_amount_usdt > 0; a buy_token call for which the token price, the
\* SOL rate or the wallet balance is not positive returns failure and leaves
\* the store as it was.
C2_PositiveEntry ==
    /\ [](\A w \in DOMAIN store : \A i \in 1..Len(store[w]) :
             /\ store[w][i].purchase_price_usdt > 0
             /\ store[w][i].purchase_amount_usdt > 0)
    /\ [][\A sol \in SolPrices, bal \in Balances, p \in Prices, n \in BOOLEAN :
             (buy_token_size(sol, bal, p, n) /\ (sol <= 0 \/ bal <= 0 \/ p <= 0))
                 => /\ pc' = "buy_fanout"
                    /\ bt'.result = "False"
                    /\ ~bt'.swap_requested
                    /\ store' = store]_vars

\* wallet A holds a position, and the buy for wallet B ended at the guards
C2_Witness ==
    /\ pc = "buy_fanout"
    /\ bt.wallet_name = "B"
    /\ bt.outcome = "error"
    /\ store[<<1, "B">>] = <<>>
    /\ "T1" \in DictKeys(store[<<1, "A">>])
    /\ DictGet(store[<<1, "A">>], "T1").purchase_price_usdt = 2

\* ===================================================================== C3
\* C3: once sell_token has returned success for a position, the token is
\* absent from the wallet's store in every later state of the process (until
\* a new buy); a sell that failed leaves the position in the store.
C3_ExitMonotonic ==
    pc \in {"cs_loop", "st_start", "st_send", "st_confirm", "st_notify", "cs_done"}
        => \A o \in cs.outcomes :
              IF o[2] = "sold"
              THEN o[1] \notin DictKeys(store[cs_wallet])
              ELSE o[1] \in DictKeys(store[cs_wallet])

\* ===================================================================== C4
\* C4: when the confirmation loop of a buy or of a sell runs out of its 30
\* seconds the operation returns failure and the store is not changed: no
\* position is created by the buy, none is removed by the sell.
C4_TimeoutKeepsStore ==
    /\ [][(pc = "bt_confirm" /\ ~within_timeout(bt.elapsed)) =>
             /\ store' = store
             /\ \/ pc' \in {"bt_confirm", "cycle"}
                \/ /\ pc' = "buy_fanout"
                   /\ bt'.outcome = "timeout"
                   /\ bt'.result = "False"]_vars
    /\ [][(pc = "st_confirm" /\ ~within_timeout(st.elapsed)) =>
             /\ store' = store
             /\ \/ pc' \in {"st_confirm", "cycle"}
                \/ /\ pc' = "cs_loop"
                   /\ <<st.token_address, "timeout">> \in cs'.outcomes
                   /\ ~(cs'.sold_any /\ ~cs.sold_any)
                   /\ cs'.updated_tokens = cs.updated_tokens]_vars
    /\ []((pc = "buy_fanout" /\ bt.outcome = "timeout") =>
             store[bt_wallet] = bt.entry_store)
    /\ []((pc = "cs_done") =>
             \A o \in cs.outcomes :
                 o[2] = "timeout" =>
                     /\ o[1] \in DictKeys(store[cs_wallet])
                     /\ DictGet(store[cs_wallet], o[1]) =
                            DictGet(cs.purchased_tokens, o[1]))

\* an exit check whose sale timed out has ended, and the position is there
C4_Witness ==
    /\ pc = "cs_done"
    /\ <<"T1", "timeout">> \in cs.outcomes
    /\ st.outcome = "timeout"
    /\ ~cs.sold_any
    /\ "T1" \in DictKeys(store[cs_wallet])

\* ===================================================================== C5
\* C5: whenever the wallet balance is below purchase amount + account
\* creation reserve + gas reserve, buy_token returns failure without asking
\* for a swap, without writing a position and without raising; so every
\* requested swap had balance >= spend + both reserves.
C5_InsufficientFunds ==
    /\ []((bt.outcome = "insufficient") =>
             /\ bt.result = "False"
             /\ ~bt.swap_requested
             /\ store[bt_wallet] = bt.entry_store)
    /\ [](bt.swap_requested =>
             bt.wallet_balance_sol * 100 >=
                 bt.wallet_balance_sol * bt.trade_percentage
                     + ATA_CREATION_COST_SOL + MINIMUM_GAS_FOR_FUTURE_TX)
    /\ [][\A sol \in SolPrices, bal \in Balances, p \in Prices, n \in BOOLEAN :
             (/\ buy_token_size(sol, bal, p, n)
              /\ sol > 0 /\ bal > 0 /\ p > 0
              /\ bal * 100 < bal * bt.trade_percentage
                                 + ATA_CREATION_COST_SOL + MINIMUM_GAS_FOR_FUTURE_TX)
                 => /\ pc' = "buy_fanout"
                    /\ bt'.outcome = "insufficient"
                    /\ bt'.result = "False"
                    /\ ~bt'.swap_requested
                    /\ store' = store]_vars

\* a buy with a funded wallet that cannot cover spend and reserves was refused
C5_Witness ==
    /\ pc = "buy_fanout"
    /\ bt.outcome = "insufficient"
    /\ bt.result = "False"
    /\ bt.wallet_balance_sol = 100000
    /\ bt.trade_percentage = 100

\* ===================================================================== C6
\* C6: get_new_tokens_from_dexscreener never returns an address that is in
\* processed_tokens: an address accepted once is accepted at most once in
\* the life of the process, and a listed address that is in the set is
\* skipped without any change.
C6_DiscoveryIdempotent ==
    /\ [](\A t \in Tokens :
             /\ accepted_count[t] <= 1
             /\ accepted_count[t] = 1 => t \in processed_tokens)
    /\ [](\A i, j \in 1..Len(new_tokens) : new_tokens[i] = new_tokens[j] => i = j)
    /\ [][(pc = "discover" /\ pc' = "discover"
             /\ disc'.scanned = disc.scanned + 1
             /\ disc'.token \in processed_tokens) =>
                /\ disc'.disposition = "seen"
                /\ UNCHANGED <<new_tokens, processed_tokens, accepted_count, buy_calls>>]_vars

\* an address accepted earlier in this process was listed again and skipped
C6_Witness ==
    /\ pc = "discover"
    /\ disc.token = "T1"
    /\ disc.disposition = "seen"
    /\ accepted_count["T1"] = 1
    /\ new_tokens = <<>>

\* ===================================================================== C7
\* C7: a token whose risk check reports has_pairs = false is rejected
\* whatever the other signals are: discovery does not accept it,
\* is_potential_scam is true for it, and buy_token returns failure without
\* asking for a swap.
C7_NoPairsRejected ==
    /\ [](disc.has_pairs = "no" => disc.disposition = "no_pairs")
    /\ [](disc.disposition = "accepted" => disc.has_pairs = "yes")
    /\ [][(pc = "discover" /\ disc'.scanned = disc.scanned + 1
              /\ disc'.has_pairs = "no") =>
                 UNCHANGED <<new_tokens, processed_tokens, accepted_count, buy_calls>>]_vars
    /\ [](\A resp \in FilterResponses, name_flagged \in BOOLEAN :
             ~filters_check_token_scam_risk(resp).has_pairs =>
                 is_potential_scam(filters_check_token_scam_risk(resp), name_flagged))
    /\ [](bt.has_pairs = "no" =>
             /\ pc = "buy_fanout"
             /\ bt.outcome = "scam"
             /\ bt.result = "False"
             /\ ~bt.swap_requested
             /\ store[bt_wallet] = bt.entry_store)

\* discovery accepted the token, the risk check of buy_token then found no
\* pairs and the buy was refused
C7_Witness ==
    /\ pc = "buy_fanout"
    /\ bt.token_address = "T1"
    /\ accepted_count["T1"] = 1
    /\ bt.has_pairs = "no"
    /\ bt.outcome = "scam"

\* ===================================================================== C8
\* C8: after update_wallet_config(u, n, updates) returns, get_wallet_config(u, n)
\* has every key of updates at the value given, every other key of that
\* wallet at its earlier value, and every other wallet (and user) is as it
\* was; this holds whether or not wallet n existed before the call.
C8_UpdateRoundTrip ==
    [][\A u \in Users, n \in WalletNames, updates \in Updates :
          update_wallet_config(u, n, updates) =>
              LET before == get_wallet_config(u, n)
                  after == get_wallet_config(u, n)'
              IN  /\ n \in DOMAIN get_user_wallets(u)'
                  /\ DOMAIN after = DOMAIN before \cup DOMAIN updates
                  /\ \A k \in DOMAIN updates : after[k] = updates[k]
                  /\ \A k \in DOMAIN before \ DOMAIN updates : after[k] = before[k]
                  /\ \A m \in WalletNames \ {n} :
                        /\ (m \in DOMAIN get_user_wallets(u)') =
                               (m \in DOMAIN get_user_wallets(u))
                        /\ get_wallet_config(u, m)' = get_wallet_config(u, m)
                  /\ \A v \in Users \ {u} : config'[v] = config[v]]_vars

\* wallet A, registered by add_wallet, had one key updated and kept the
\* others; wallet B was created by an update and holds just that key
C8_Witness ==
    /\ DOMAIN config[1] = {"A", "B"}
    /\ DOMAIN config[1]["A"] = DOMAIN add_wallet(1, "A")
    /\ config[1]["A"].trade_percentage = 50
    /\ config[1]["A"].profit_percentage = DEFAULT_PROFIT_PERCENTAGE
    /\ config[1]["A"].private_key = add_wallet(1, "A").private_key
    /\ DOMAIN config[1]["B"] = {"profit_percentage"}

\* ===================================================================== C9
\* C9: a position of (user, wallet, token) is created by exactly one
\* successful buy: no step, in this process or after a restart, changes the
\* entry price, the target or the signature of a position that is in the
\* store.
C9_CreatedOnce ==
    [][\A w \in DOMAIN store : \A t \in DictKeys(store[w]) \cap DictKeys(store'[w]) :
          /\ DictGet(store'[w], t).purchase_price_usdt =
                 DictGet(store[w], t).purchase_price_usdt
          /\ DictGet(store'[w], t).target_price_usdt =
                 DictGet(store[w], t).target_price_usdt
          /\ DictGet(store'[w], t).tx_signature =
                 DictGet(store[w], t).tx_signature]_vars

\* ==================================================================== C10
\* C10: at the end of a check_and_sell_tokens call, every position for
\* which a price > 0 was fetched and which was not sold has that price as
\* its current_price_usdt in the store.
C10_PricePersisted ==
    pc = "cs_done" =>
        \A t \in cs.fetched \cap DictKeys(cs.updated_tokens) :
            /\ t \in DictKeys(store[cs_wallet])
            /\ DictGet(store[cs_wallet], t).current_price_usdt =
                   DictGet(cs.updated_tokens, t).current_price_usdt

\* ==================================================================== C11
\* C11: the persisted mapping of a wallet is never in a partially written
\* state: whenever the process dies during a store write of buy_token or of
\* check_and_sell_tokens, the file read next holds the complete mapping
\* from before the write or the complete mapping after it.
C11_NoPartialStore == \A w \in DOMAIN store : store[w] # PartialFile

\* ==================================================================== C14
\* C14: the swap client answers None when the quote is not 200, when both
\* builds are not 200 and when the build answer has no 'swapTransaction'
\* field; so buy_token ends such a call with the "no swap route" outcome.
C14_SwapClientFailure ==
    [][\A reply \in SwapReplies :
          (/\ buy_token_swap(reply)
           /\ \/ reply.raises # ""
              \/ reply.quote # 200
              \/ reply.build # 200 /\ reply.build_shared # 200
              \/ reply.body # "tx")
              => /\ no_swap_transaction(get_jupiter_swap_transaction_improved(reply))
                 /\ pc' = "buy_fanout"
                 /\ bt'.outcome = "no_route"
                 /\ bt'.result = "False"]_vars

\* ==================================================================== C15
\* C15: when the first build request is answered with a status other than
\* 200, the client sends exactly one more build request, with
\* useSharedAccounts true and the same quote response, and reports failure
\* only if that one is not 200 either; when the first build request is
\* answered 200 there is no second request.
C15_BuildRetriedOnce ==
    [][\A reply \in SwapReplies :
          (buy_token_swap(reply) /\ reply.raises = "" /\ reply.quote = 200) =>
              LET posts == bt'.build_requests
              IN  /\ Len(posts) >= 1
                  /\ ~posts[1].useSharedAccounts
                  /\ reply.build = 200 => Len(posts) = 1
                  /\ reply.build # 200 =>
                        /\ Len(posts) = 2
                        /\ posts[2].useSharedAccounts
                        /\ posts[2].quoteResponse = posts[1].quoteResponse
                        /\ (bt'.outcome = "no_route" /\ reply.body # "empty")
                               => reply.build_shared # 200
                        /\ (reply.build_shared = 200 /\ reply.body = "tx")
                               => pc' = "bt_send"]_vars

\* the first build was refused, the second was sent with shared accounts
\* and answered with a transaction: the buy goes on
C15_Witness ==
    /\ pc = "bt_send"
    /\ Len(bt.build_requests) = 2
    /\ bt.build_requests[2].useSharedAccounts
    /\ bt.swap_requested

\* ==================================================================== C16
\* C16: the entry price and the target of a new position come from the
\* token's spot price at the confirmation of the buy, not from the price
\* fetched before the swap was requested.
C16_PriceAtConfirmation ==
    [][\A w \in DOMAIN store : \A t \in DictKeys(store'[w]) :
          IsBuyRecord(w, t) =>
              /\ DictGet(store'[w], t).purchase_price_usdt = bt.spot_at_confirmation
              /\ DictGet(store'[w], t).target_price_usdt =
                     bt.spot_at_confirmation * (100 + bt.profit_percentage)]_vars

\* ==================================================================== C17
\* C17: a wallet whose configured trade_percentage is <= 0 or > 100 is
\* rejected by buy_token at the gate, before the balance is read, a swap is
\* requested or the store is written; a swap is requested only for a
\* percentage in (0, 100].
C17_PercentGate ==
    /\ [](bt.outcome = "bad_percent" =>
              /\ bt.result = "False"
              /\ bt.wallet_balance_sol = 0
              /\ ~bt.swap_requested
              /\ store[bt_wallet] = bt.entry_store)
    /\ [](bt.swap_requested =>
              bt.trade_percentage > 0 /\ bt.trade_percentage <= 100)
    /\ [][\A resp \in FilterResponses, flagged \in BOOLEAN :
          (/\ buy_token_gate(resp, flagged)
           /\ LET tp == get_wallet_config(bt.user_id, bt.wallet_name).trade_percentage
              IN  tp <= 0 \/ tp > 100)
          => /\ pc' = "buy_fanout"
             /\ bt'.result = "False"
             /\ bt'.outcome \in {"scam", "bad_percent"}
             /\ bt'.wallet_balance_sol = 0
             /\ ~bt'.swap_requested
             /\ store' = store]_vars

\* a buy was refused for a stored percentage of 150
C17_Witness ==
    /\ bt.outcome = "bad_percent"
    /\ bt.user_id = 1 /\ bt.wallet_name = "A"
    /\ config[1]["A"].trade_percentage = 150

\* ==================================================================== C18
\* C18: for a balance B, a rate R > 0 and a percentage P in (0, 100] the
\* spend is B*R*P/100 in the quote currency and the amount handed to the
\* swap is that spend converted back at R, i.e. B*P/100 in the native
\* currency, with no reserve taken off (B = 10, R = 150, P = 2: 30 and 0.2).
\* Amounts are in hundredths of the units of B: 3000 is 30.00, 20 is 0.20.
C18_TradeSizing ==
    /\ [](/\ purchase_amount_usdt(10, 150, 2) = 3000
          /\ purchase_amount_sol(purchase_amount_usdt(10, 150, 2), 150) = 20)
    /\ [][\A R \in SolPrices, B \in Balances, p \in Prices, n \in BOOLEAN :
            (buy_token_size(R, B, p, n) /\ bt'.outcome # "error")
            => /\ bt.trade_percentage > 0 /\ bt.trade_percentage <= 100
               /\ R > 0
               /\ bt'.wallet_balance_sol = B
               /\ \/ /\ pc' = "bt_swap"
                     /\ bt'.purchase_amount_usdt = B * R * bt.trade_percentage
                     /\ bt'.purchase_amount_sol = B * bt.trade_percentage
                  \/ bt'.outcome = "insufficient"]_vars
    /\ [][\A reply \in SwapReplies :
            buy_token_swap(reply)
            => bt'.amount = 10 * bt.wallet_balance_sol * bt.trade_percentage]_vars

\* 1% of 0.1 SOL at 150: 0.15 in the quote currency, 0.001 SOL, 1,000,000
\* lamports asked of the swap
C18_Witness ==
    /\ pc = "bt_send"
    /\ bt.wallet_balance_sol = 100000 /\ bt.trade_percentage = 1
    /\ bt.purchase_amount_usdt = 15000000
    /\ bt.purchase_amount_sol = 100000
    /\ bt.amount = 1000000

\* ==================================================================== C19
\* C19: whether bot.send_message delivers or raises changes neither what
\* buy_token and sell_token return nor what they leave in the store: each
\* step that notifies the user ends in the same state for both.
C19_NotificationNeutral ==
    [][/\ \A n \in BOOLEAN : buy_token_record(n) => buy_token_record(~n)
       /\ \A n \in BOOLEAN : sell_token_sold(n) => sell_token_sold(~n)
       /\ \A R \in SolPrices, B \in Balances, p \in Prices, n \in BOOLEAN :
             (buy_token_size(R, B, p, n) /\ bt'.outcome = "insufficient")
             => buy_token_size(R, B, p, ~n)]_vars

\* ==================================================================== C20
\* C20: while buy_token, check_and_sell_tokens or sell_token runs for one
\* (user, wallet) pair, no step, its own or anyone else's, changes the
\* stored positions of a different pair.
C20_OtherStoresUntouched ==
    [][\A other \in DOMAIN store :
          (\/ pc \in {"bt_gate", "bt_size", "bt_swap", "bt_send", "bt_confirm",
                      "bt_record"} /\ other # bt_wallet
           \/ pc \in {"cs_loop", "st_start", "st_send", "st_confirm",
                      "st_notify"} /\ other # cs_wallet)
          => store'[other] = store[other]]_vars

\* the exit check of wallet A sold and wrote back its file while wallet B
\* holds a position
C20_Witness ==
    /\ pc = "cs_done"
    /\ cs_wallet = <<1, "A">> /\ cs.sold_any
    /\ store[<<1, "A">>] = <<>>
    /\ store[<<1, "B">>] # <<>>

\* ==================================================================== C21
\* C21: in an exit check a sell is attempted for a position exactly when a
\* positive price was fetched, the price is at least the stored target and
\* the stored target is positive; a position without a target is never sold.
C21_SellIffTargetReached ==
    /\ [][\A p \in Prices :
            check_and_sell_price(p)
            => LET token_data == cs.purchased_tokens[cs.idx]
               IN  (pc' = "st_start" /\ st'.token_address = token_data.token)
                   <=> (/\ p > 0
                        /\ p * 100 >= token_data.target_price_usdt
                        /\ token_data.target_price_usdt > 0)]_vars
    /\ [][(pc' = "st_start" /\ pc # "st_start")
          => /\ pc = "cs_loop"
             /\ LET d == DictGet(cs'.updated_tokens, st'.token_address)
                IN  /\ d.current_price_usdt > 0
                    /\ d.current_price_usdt * 100 >= d.target_price_usdt
                    /\ d.target_price_usdt > 0]_vars
    /\ [](pc \in {"st_start", "st_send", "st_confirm", "st_notify"}
          => DictGet(cs.purchased_tokens, st.token_address).target_price_usdt > 0)

\* the position without a target was priced and passed over, the next
\* position of the file reached its target and is being sold
C21_Witness ==
    /\ pc = "st_start"
    /\ st.token_address = "T1"
    /\ cs.purchased_tokens[1].token = "T2"
    /\ cs.purchased_tokens[1].target_price_usdt = 0
    /\ "T2" \in cs.fetched

\* ==================================================================== C22
\* C22: when the price of a position cannot be fetched in an exit check
\* (price <= 0) its record stays as it was, last known price included, no
\* sell is attempted for it, the check goes on with the next position of
\* the wallet without an error, and what is written back at the end of the
\* cycle still holds the record as it was read.
C22_UnpricedPositionKept ==
    /\ [][\A p \in Prices :
            (check_and_sell_price(p) /\ p <= 0)
            => LET token_data == cs.purchased_tokens[cs.idx]
               IN  /\ DictGet(cs'.updated_tokens, token_data.token) = token_data
                   /\ pc' = "cs_loop"
                   /\ cs'.idx = cs.idx + 1
                   /\ cs'.fetched = cs.fetched
                   /\ cs'.outcomes = cs.outcomes
                   /\ st' = st
                   /\ store' = store]_vars
    /\ [][check_and_sell_write
          => \A i \in 1..Len(cs.purchased_tokens) :
                LET token_data == cs.purchased_tokens[i]
                IN  token_data.token \notin cs.fetched
                    => /\ token_data.token \in DictKeys(store'[cs_wallet])
                       /\ DictGet(store'[cs_wallet], token_data.token) = token_data]_vars

\* the price of T2 could not be fetched, T1 was sold after it, and the file
\* written at the end holds the record of T2 as it was
C22_Witness ==
    /\ pc = "cs_done"
    /\ cs.sold_any
    /\ cs.purchased_tokens[1].token = "T2"
    /\ "T2" \notin cs.fetched
    /\ "T1" \in cs.fetched
    /\ store[cs_wallet] = <<cs.purchased_tokens[1]>>
    /\ cs.purchased_tokens[1].current_price_usdt = 2

\* ==================================================================== C23
\* C23: every sell swap is requested for exactly what the wallet holds of
\* the token on chain when sell_token runs, never less; when the wallet
\* holds nothing no swap is requested, sell_token reports failure and the
\* position stays in the store.
C23_SellsLiveBalance ==
    /\ [][\A ok \in BOOLEAN, accounts \in TokenAccounts, reply \in SwapReplies :
            (sell_token_swap(ok, accounts, reply) /\ pc' = "st_send")
            => st'.amount = on_chain_balance(accounts)]_vars
    /\ [][\A ok \in BOOLEAN, accounts \in TokenAccounts :
            (sell_token_no_balance(ok, accounts) /\ on_chain_balance(accounts) = 0)
            => /\ st'.outcome = "zero_balance"
               /\ ~st'.swap_requested
               /\ ~cs'.sold_any
               /\ st.token_address \in DictKeys(cs'.updated_tokens)
               /\ store' = store]_vars

\* ==================================================================== C24
\* C24: once a sell is confirmed in an exit check, the position is gone
\* from the store before the check fetches the price of any other position
\* of the wallet.
C24_RemovalBeforeNextPosition ==
    [][\A p \in Prices :
          check_and_sell_price(p)
          => \A o \in cs.outcomes :
                o[2] = "sold" => o[1] \notin DictKeys(store[cs_wallet])]_vars

\* ==================================================================== C25
\* C25: a fault while one token or one wallet is handled skips nothing
\* else: in the discovery cycle a failed market-data fetch for a candidate
\* leaves the listing to be scanned on; in the buy and in the exit fan-out,
\* however the call for one (user, wallet) ends, the wallets that were still
\* to be visited after it are still to be visited.
C25_FaultContained ==
    /\ [][\A t \in Tokens, resp \in MonitorResponses :
            (discover_candidate(t, resp) /\ resp.kind \in {"exception", "non200"})
            => /\ pc' = "discover"
               /\ disc'.scanned = disc.scanned + 1
               /\ new_tokens' = new_tokens]_vars
    /\ [][(/\ pc \in {"bt_gate", "bt_size", "bt_swap", "bt_send", "bt_confirm",
                      "bt_record"}
           /\ pc' = "buy_fanout")
          => wallets_left' = Tail(wallets_left)]_vars
    /\ [][(/\ pc \in {"cs_loop", "st_start", "st_send", "st_confirm",
                      "st_notify", "cs_done"}
           /\ pc' = "sell_fanout")
          => wallets_left' = Tail(wallets_left)]_vars

\* ==================================================================== C26
\* C26: a failure of a cycle never ends monitor_new_tokens: an exception that
\* leaves a cycle is followed by the sleep of the handler, which is longer
\* than the sleep between two cycles (60 s against 30 s), and then by a new
\* cycle; under fair scheduling cycles are started again and again.
C26_CyclesForever ==
    /\ [][cycle_raises => /\ seconds_slept(pc') = 60
                          /\ seconds_slept(pc') > seconds_slept("sleep")]_vars
    /\ [][pc = "backoff" /\ pc' # "backoff" => pc' = "cycle"]_vars
    /\ (pc = "backoff") ~> (pc = "cycle")
    /\ []<>(pc = "cycle")
    /\ []<><<\E ok \in BOOLEAN : get_new_tokens_request(ok)>>_vars

\* an exception left the cycle before the exit fan-out and the task sleeps
\* in the handler
C26_Witness ==
    /\ pc = "backoff"
    /\ processed_tokens # {}

\* ==================================================================== C27
\* C27: every token accepted by a discovery cycle is handed to buy_token
\* once for each registered (user, wallet), in that cycle and before its
\* exit evaluation.  Step by step: the fan-out of a token starts from all
\* the registered wallets, each call of buy_token is for the first wallet
\* still to visit and the first token still to buy, the end of a call
\* leaves the other wallets of that token (then the other tokens) still to
\* do, and the buy fan-out is left only when no token is left.
C27_HandedToEveryWallet ==
    /\ [][(pc = "buy_fanout" /\ pc' = "bt_gate")
          => /\ bt'.token_address = new_tokens[1]
             /\ wallets_left' = (IF wallets_left = <<>> THEN registered_wallets
                                 ELSE wallets_left)
             /\ <<bt'.user_id, bt'.wallet_name>> = wallets_left'[1]]_vars
    /\ [][(/\ pc \in {"bt_gate", "bt_size", "bt_swap", "bt_send", "bt_confirm",
                      "bt_record"}
           /\ pc' \notin {"bt_gate", "bt_size", "bt_swap", "bt_send",
                          "bt_confirm", "bt_record", "cycle"})
          => /\ pc' = "buy_fanout"
             /\ wallets_left' = Tail(wallets_left)
             /\ new_tokens' = (IF Tail(wallets_left) = <<>> THEN Tail(new_tokens)
                               ELSE new_tokens)]_vars
    /\ [][(pc = "buy_fanout" /\ pc' \notin {"buy_fanout", "bt_gate", "cycle"})
          => pc' = "sell_fanout" /\ new_tokens = <<>>]_vars

\* ==================================================================== C28
\* C28: the discovery accepts a candidate only if a pair exists, a pair is
\* on an allowed venue, the risk level is not HIGH and the age is at most
\* MAX_AGE_MINUTES; the age comes from the creation timestamp of the pair
\* when that is nonzero and in the past, and is zero otherwise, in which
\* case the candidate is evaluated like any other and nothing is raised.
C28_AcceptanceConditions ==
    /\ [][\A t \in Tokens, resp \in MonitorResponses :
            (discover_candidate(t, resp) /\ new_tokens' # new_tokens)
            => /\ resp.kind = "ok"
               /\ resp.risk_score < MONITOR_HIGH_SCORE
               /\ \/ resp.created_at <= 0
                  \/ resp.created_at >= NOW
                  \/ NOW - resp.created_at <= MAX_AGE_MINUTES
               /\ new_tokens' = Append(new_tokens, t)]_vars
    /\ [][\A t \in Tokens, resp \in MonitorResponses :
            (/\ discover_candidate(t, resp)
             /\ t \notin processed_tokens
             /\ resp.kind = "ok" /\ resp.risk_score < MONITOR_HIGH_SCORE
             /\ (resp.created_at = 0 \/ resp.created_at >= NOW))
            => /\ disc'.disposition = "accepted"
               /\ pc' = "discover"]_vars

\* the discovery has just accepted T1 and goes on with the listing
C28_Witness ==
    /\ pc = "discover"
    /\ disc.disposition = "accepted"
    /\ disc.token = "T1"
    /\ new_tokens = <<"T1">>

\* ==================================================================== C29
\* C29: with a pair present filters.check_token_scam_risk returns the level
\* of the point rules: +3 liquidity below 10000, +2 24h volume below 50000,
\* +4 no name or no symbol, +2 buys/sells of the last hour below 1.2 when
\* both counts are positive, +1 no social links, +2 1h price change above
\* 300, and with an audit report +5 top holder above 20%, +3 normalised
\* score below 90 (nothing for 90..99), +3 per danger and +1 per warn
\* finding; 8 and more is HIGH, 4 and more MEDIUM, less is LOW.  Liquidity
\* 500, volume 50 and no metadata is HIGH.
C29_RiskPoints ==
    bt.scam_info # <<>> =>
        LET d == bt.pair_data
            low_liquidity == IF d.liquidity_usd = 500 THEN 3 ELSE 0
            low_volume == IF d.volume_24h = 50 THEN 2 ELSE 0
            no_metadata == IF d.has_name /\ d.has_symbol THEN 0 ELSE 4
            sell_pressure == IF d.h1_buys = 11 /\ d.h1_sells = 10 THEN 2 ELSE 0
            no_socials == IF d.socials = 0 THEN 1 ELSE 0
            volatile == IF d.price_change_h1 = 301 THEN 2 ELSE 0
            top_holder == IF d.has_report /\ d.top_holder_pct = 21 THEN 5 ELSE 0
            low_rating == IF d.has_report /\ d.score_normalised = 89 THEN 3 ELSE 0
            findings == IF d.has_report THEN 3 * d.danger + d.warn ELSE 0
            points == low_liquidity + low_volume + no_metadata + sell_pressure
                      + no_socials + volatile + top_holder + low_rating + findings
        IN  /\ bt.scam_info.has_pairs
            /\ bt.scam_info.risk_score = points
            /\ bt.scam_info.risk_level = "HIGH" <=> points >= 8
            /\ bt.scam_info.risk_level = "MEDIUM" <=> (points >= 4 /\ points < 8)
            /\ bt.scam_info.risk_level = "LOW" <=> points < 4
            /\ (d.liquidity_usd = 500 /\ d.volume_24h = 50 /\ ~d.has_name)
               => bt.scam_info.risk_level = "HIGH"

\* liquidity 500, volume 50, no name, nothing else against the token: 9
\* points, HIGH
C29_Witness ==
    /\ bt.scam_info # <<>>
    /\ bt.pair_data.liquidity_usd = 500 /\ bt.pair_data.volume_24h = 50
    /\ ~bt.pair_data.has_name /\ bt.pair_data.socials = 1
    /\ bt.pair_data.h1_buys = 0 /\ bt.pair_data.price_change_h1 = 300
    /\ bt.scam_info.risk_score = 9
    /\ bt.scam_info.risk_level = "HIGH"

C31_PriceOfFirstPair ==
    [][get_token_current_price_call
       => LET reply == bt.price_reply[1]
              again == bt.price_reply[2]
              price == bt'.current_price_usdt
              quoted_in_sol(p) == p.quote_symbol \in {SOL, <<"s", "o", "l">>}
              numeric(rep) ==
                  rep.kind = "ok" =>
                      \A i \in 1..Len(rep.pairs) :
                          rep.pairs[i].price_usd # NotANumber
          IN  /\ reply.kind \in {"non_200", "bad_json", "network_error"}
                     => price = 0
              /\ (reply.kind = "ok" /\ reply.pairs # <<>> /\ again = reply
                  /\ numeric(reply))
                     => IF \E i \in 1..Len(reply.pairs) :
                               quoted_in_sol(reply.pairs[i])
                        THEN LET i == CHOOSE i \in 1..Len(reply.pairs) :
                                          /\ quoted_in_sol(reply.pairs[i])
                                          /\ \A j \in 1..(i - 1) :
                                                 ~quoted_in_sol(reply.pairs[j])
                             IN  price = reply.pairs[i].price_usd
                        ELSE price = reply.pairs[1].price_usd]_vars

\* ==================================================================== C32
\* C32: buy_token returns True exactly when it has written a new position:
\* the step that writes the position returns True whether the notification
\* is delivered or not, and a call that returns anything else leaves the
\* wallet's store as it found it.
C32_TrueIffRecorded ==
    [][/\ \A n \in BOOLEAN : buy_token_record(n) => bt'.result = "True"
       /\ (/\ pc \in {"bt_gate", "bt_size", "bt_swap", "bt_send", "bt_confirm",
                      "bt_record"}
           /\ pc' = "buy_fanout"
           /\ bt'.result # "True")
          => store'[bt_wallet] = bt.entry_store]_vars

\* ==================================================================== C33
\* C33: the write of a successful buy_token changes only the entry of the
\* bought token: whatever the wallet's store file held before, readable or
\* not, every other entry of it is in the file after the write, unchanged.
C33_OtherPositionsKept ==
    [][\A n \in BOOLEAN :
          buy_token_record(n)
          => \A i \in 1..Len(store[bt_wallet]) :
                 store[bt_wallet][i].token # bt.token_address
                 => \E j \in 1..Len(store'[bt_wallet]) :
                        store'[bt_wallet][j] = store[bt_wallet][i]]_vars

\* ==================================================================== C34
\* C34: a position leaves a wallet's store only in the write-back of an exit
\* check of that wallet in which sell_token returned success for that token;
\* no buy, failed sell, failed price fetch or settings update removes one.
C34_RemovedOnlyWhenSold ==
    [][\A w \in DOMAIN store, t \in Tokens :
          (t \in DictKeys(store[w]) /\ t \notin DictKeys(store'[w]))
          => /\ check_and_sell_write
             /\ w = cs_wallet
             /\ <<t, "sold">> \in cs.outcomes]_vars

\* an exit check has sold one position of a wallet and written back the
\* other one
C34_Witness ==
    /\ pc = "cs_done"
    /\ \E t \in Tokens : <<t, "sold">> \in cs.outcomes
    /\ store[cs_wallet] # <<>>
    /\ \A o \in cs.outcomes : o[1] \notin DictKeys(store[cs_wallet])

\* ==================================================================== C35
\* C35: under fair scheduling, a stored position whose price stays at or
\* above its target is eventually removed from the store, whatever the
\* wallet holds of the token on chain, nothing included.
C35_ExitEventually ==
    ("T2" \in DictKeys(store[<<1, "A">>]))
        ~> ("T2" \notin DictKeys(store[<<1, "A">>]))

\* ==================================================================== C36
\* C36: a cycle of an exit-poll loop (monitor_new_tokens,
\* monitor_purchased_tokens) goes to sleep only after check_and_sell_tokens
\* was invoked for every registered (user, wallet): no wallet is left to be
\* checked when the sleep starts.
C36_EveryWalletChecked ==
    [][(/\ pc' \in {"sleep", "purchased_sleep"}
        /\ pc \notin {"sleep", "purchased_sleep"})
       => wallets_left' = <<>>]_vars

\* ==================================================================== C37
\* C37: in the life of one process buy_token is called at most once for a
\* (user, wallet, token): an accepted address is in processed_tokens before
\* its first buy, so an address whose buy failed is not handed to buy_token
\* again before the process restarts.
C37_BoughtAtMostOnce ==
    /\ DOMAIN buy_calls = (Users \X WalletNames) \X Tokens
    /\ \A c \in DOMAIN buy_calls : buy_calls[c] <= 1
    /\ \A t \in Tokens :
          (\E w \in Users \X WalletNames : buy_calls[<<w, t>>] > 0)
          => t \in processed_tokens

\* the buy of T1 for wallet A failed earlier in this process, T1 is listed
\* again and the discovery skips it
C37_Witness ==
    /\ pc = "discover"
    /\ disc.token = "T1"
    /\ disc.disposition = "seen"
    /\ buy_calls[<<<<1, "A">>, "T1">>] = 1
    /\ store[<<1, "A">>] = <<>>
    /\ new_tokens = <<>>

\* ==================================================================== C38
\* C38: the confirmation loops of buy_token and sell_token end: no pass of
\* a loop starts once 30 seconds have gone by, a loop is left either with a
\* status inside the budget or through its timeout branch after it, and
\* under fair scheduling every loop is left, whatever passes without a
\* status or with an exception came before.
C38_ConfirmationEnds ==
    /\ [][\A poll \in {"none", "exception"}, d \in PollSeconds :
             /\ buy_token_poll(poll, d) => bt.elapsed < 30
             /\ sell_token_poll(poll, d) => st.elapsed < 30]_vars
    /\ [][(pc = "bt_confirm" /\ pc' \notin {"bt_confirm", "cycle"})
          => \/ pc' = "bt_record" /\ bt.elapsed < 30
             \/ pc' = "buy_fanout" /\ bt'.outcome = "timeout" /\ bt.elapsed >= 30]_vars
    /\ [][(pc = "st_confirm" /\ pc' \notin {"st_confirm", "cycle"})
          => \/ pc' = "st_notify" /\ st.elapsed < 30
             \/ pc' = "cs_loop" /\ st'.outcome = "timeout" /\ st.elapsed >= 30]_vars
    /\ (pc = "bt_confirm") ~> (pc # "bt_confirm")
    /\ (pc = "st_confirm") ~> (pc # "st_confirm")

\* a sell whose confirmation loop ran out of its budget has returned into
\* the exit check
C38_Witness ==
    /\ pc = "cs_loop"
    /\ st.outcome = "timeout"

\* ==================================================================== C39
\* C39: with trade_percentage = 100 the spend is the whole balance, so with
\* the two reserves the sufficiency check fails for every positive balance:
\* such a call of buy_token ends with the insufficient-funds outcome, never
\* reaches the swap request and records no position.
C39_FullPercentNeverBuys ==
    /\ [](pc \in {"bt_swap", "bt_send", "bt_confirm", "bt_record"}
             => bt.trade_percentage # 100)
    /\ [][\A sol \in SolPrices, bal \in Balances, p \in Prices, n \in BOOLEAN :
             (/\ buy_token_size(sol, bal, p, n)
              /\ bt.trade_percentage = 100
              /\ sol > 0 /\ bal > 0 /\ p > 0)
             => /\ bt'.outcome = "insufficient"
                /\ pc' = "buy_fanout"
                /\ store' = store]_vars

\* a wallet set to 100 percent and holding the largest balance was refused
\* for insufficient funds
C39_Witness ==
    /\ pc = "buy_fanout"
    /\ bt.outcome = "insufficient"
    /\ bt.trade_percentage = 100
    /\ bt.wallet_balance_sol = 100000

====
